---- MODULE Spec2Model ----
(***************************************************************************)
(* A model of the structured-merge code model (Piece tree), the entity     *)
(* matcher, the translation workspace and the two scheduling engines of    *)
(* llm_c2rust.                                                             *)
(*                                                                         *)
(* The module holds several specifications over one set of variables; each *)
(* specification drives one component and leaves the variables of the      *)
(* other components at their idle values:                                  *)
(*   SpecPiece   RustExtendable / RustCode: add, remove, merge_in, and     *)
(*               RustPiece.set_comment                                     *)
(*   SpecMatch   TreesitterMatcher: match, try_to_match                    *)
(*   SpecPush    EdgeCentricWorkspace.push                                 *)
(*   SpecNode    NodeCentricEngine._translate_order and its batch tasks    *)
(*   SpecEdge    EdgeCentricEngine._synthesize_rust and its batch tasks    *)
(*   SpecChoose  EdgeCentricEngine._choose_to_trans                        *)
(*   SpecRepair  the repair rounds of both engines (_resolve_conflicts)    *)
(*   SpecScope   NodeCentricEngine._get_conflicts                          *)
(*   SpecTree    RustSplittable: walk, piece_ref_ranges, trimmed, split    *)
(*   SpecSynth   EdgeCentricEngine._sythesize_for_segments                 *)
(*   SpecRetry   retry_forever                                             *)
(*   SpecNodePush  NodeCentricWorkspace.push and trans_result              *)
(*   SpecProject EdgeCentricEngine._synthesize_rust with its workspace     *)
(*   SpecTarget  TreesitterMatcher.match_piece on one source piece         *)
(*   SpecVote    _choose_to_trans with completion timestamps               *)
(*   SpecFail    both schedulers with batch tasks that end by an exception *)
(*   SpecWsTree  EdgeCentricWorkspace.push with nested and import texts    *)
(*   SpecRepairFair  SpecRepair of one round, weakly fair repair tasks     *)
(***************************************************************************)
EXTENDS Integers, Sequences, FiniteSets, TLC

VARIABLES
    heap,       \* the Piece objects: id -> [kind, name, body, last, comm, attr, parent, items, use_decls]
    spent,      \* ids of Pieces that were already handed to add / merge_in
    last,       \* the operation performed last, its arguments and its return value
    mres,       \* matcher: the outcome of the last match / try_to_match call
    ws,         \* EdgeCentricWorkspace: seg_to_pieces, seg_of_pieces
    nc,         \* node-centric scheduler state
    ec,         \* edge-centric scheduler state
    rp          \* edge-centric repair round state

vars == <<heap, spent, last, mres, ws, nc, ec, rp>>

None == 0

(***************************************************************************)
(* Generic helpers on sequences and sets.                                  *)
(***************************************************************************)
Range(s) == {s[i] : i \in DOMAIN s}

RECURSIVE SeqOfSet(_)
\* The elements of a finite set of numbers in increasing order.
SeqOfSet(S) ==
    IF S = {} THEN <<>>
    ELSE LET m == CHOOSE x \in S : \A y \in S : x <= y
         IN <<m>> \o SeqOfSet(S \ {m})

RECURSIVE SeqsUpTo(_, _)
\* the non-empty sequences of at most n elements of S
SeqsUpTo(S, n) ==
    IF n = 0 THEN {}
    ELSE {<<x>> : x \in S} \cup {<<x>> \o t : x \in S, t \in SeqsUpTo(S, n - 1)}

RECURSIVE SumOver(_, _)
SumOver(f, S) ==
    IF S = {} THEN 0
    ELSE LET x == CHOOSE y \in S : TRUE IN f[x] + SumOver(f, S \ {x})

(***************************************************************************)
(* Names are sequences of symbols, so that case folding and tokenisation   *)
(* are computed on the characters.  "impl " and "use " and "::" are the    *)
(* literal prefixes and separators the Piece constructors put into names.  *)
(***************************************************************************)
N_a     == <<"a">>
N_b     == <<"b">>
N_q     == <<"q">>
N_self  == <<"self">>
N_x     == <<"x">>
N_T     == <<"T">>

ImplName(type_name) == <<"impl ">> \o type_name
UseName(path) == <<"use ">> \o path

(***************************************************************************)
(* Piece kinds (the concrete classes of rust_pieces.py).                   *)
(***************************************************************************)
IsExtendable(k) == k \in {"code", "impl", "impltrait", "struct", "enum", "trait", "use"}
IsSplittable(k) == k \in {"code", "impl", "impltrait"}

\* sort_rust_pieces: the position of a kind in `order`, len(order) for the rest
KindOrder(k) ==
    CASE k = "use" -> 0
      [] k = "macro" -> 1
      [] k = "static" -> 2
      [] k = "const" -> 3
      [] k = "enum" -> 4
      [] k = "struct" -> 5
      [] k = "impl" -> 6
      [] OTHER -> 7

\* sorted(pieces, key=key): a stable sort by KindOrder
SortRustPieces(h, s) ==
    LET Sel(n) == SelectSeq(s, LAMBDA p : KindOrder(h[p].kind) = n)
    IN Sel(0) \o Sel(1) \o Sel(2) \o Sel(3) \o Sel(4) \o Sel(5) \o Sel(6) \o Sel(7)

\* RustExtendable.items / RustCode.items
Items(h, c) ==
    IF h[c].kind = "code" THEN SortRustPieces(h, h[c].items) ELSE h[c].items

\* _items_of_name.get(name): the child stored under `name`, or None
GetItem(h, c, nm) ==
    LET hit == {p \in Range(h[c].items) : h[p].name = nm}
    IN IF hit = {} THEN None ELSE CHOOSE p \in hit : TRUE

\* del _items_of_name[name]
DelItem(h, s, nm) == SelectSeq(s, LAMBDA p : h[p].name # nm)

(***************************************************************************)
(* Rendered text.  A text is a sequence of atoms (strings); NL is the line *)
(* break, so text.count("\n") is the number of NL atoms and the            *)
(* concatenation of texts is \o.  An atom of Blank has only characters of  *)
(* the set " \t\n,;{}", every other atom has a character outside it.       *)
(***************************************************************************)
NL == "\n"
Indent == "    "
Blank == {NL, Indent, " ", ",", ", ", ";", "{", "}", " {"}

\* text.count("\n")
CountNL(text) == Cardinality({i \in DOMAIN text : text[i] = NL})

\* text.strip(" \t\n,;{}") is not empty
Marked(text) == \E i \in DOMAIN text : text[i] \notin Blank

RECURSIVE JoinTexts(_, _)
\* sep.join(texts)
JoinTexts(sep, texts) ==
    IF texts = <<>> THEN <<>>
    ELSE IF Len(texts) = 1 THEN texts[1]
    ELSE texts[1] \o sep \o JoinTexts(sep, Tail(texts))

\* _header of the container p; of an import it is
\* "use " + "::".join(path + [bracket]), and the name is "use " + "::".join(path)
Header(h, p) ==
    CASE h[p].kind = "code" -> <<>>
      [] h[p].kind = "impl" -> <<"impl ">> \o h[p].last \o <<" {", NL, Indent>>
      [] h[p].kind = "use" ->
            h[p].name \o (IF Len(h[p].name) > 1 THEN <<"::">> ELSE <<>>)
                      \o (IF Len(h[p].items) > 1 THEN <<"{">> ELSE <<>>)
      [] h[p].kind \in {"struct", "enum", "trait"} ->
            <<h[p].kind, " ">> \o h[p].name \o <<" {", NL, Indent>>
      [] OTHER -> h[p].name \o <<" {", NL, Indent>>

\* _sep of the container p
Sep(h, p) ==
    CASE h[p].kind = "code" -> <<NL, NL>>
      [] h[p].kind = "use" -> <<", ">>
      [] h[p].kind \in {"struct", "enum"} -> <<",", NL, Indent>>
      [] OTHER -> <<NL, Indent>>

\* _tail of the container p
Tail_(h, p) ==
    CASE h[p].kind = "code" -> <<>>
      [] h[p].kind = "use" -> (IF Len(h[p].items) > 1 THEN <<"}">> ELSE <<>>) \o <<";">>
      [] OTHER -> <<NL, "}">>

RECURSIVE CommentOf(_)
\* a comment of n lines: `// c`, then lines `// d`
CommentOf(n) ==
    IF n = 0 THEN <<>> ELSE IF n = 1 THEN <<"// c">> ELSE Append(CommentOf(n - 1), "// d")

\* _comm_text and _attr_text of the Piece p; comm is the list of the lines of
\* the comment
CommText(h, p) == JoinTexts(<<NL>>, [i \in DOMAIN h[p].comm |-> <<h[p].comm[i]>>])
AttrText(h, p) == IF h[p].attr >= 1 THEN <<"#[attr]">> ELSE <<>>

RECURSIVE Text(_, _), OwnText(_, _)
\* Piece.text: "\n".join(filter(None, [_comm_text, _attr_text, _text])), the
\* text by which Pieces compare and hash
Text(h, p) ==
    JoinTexts(<<NL>>, SelectSeq(<<CommText(h, p), AttrText(h, p), OwnText(h, p)>>,
                                LAMBDA t : t # <<>>))

\* _text: the source text of a Piece that is not extendable (of an identifier
\* of an import its path, of which the name is the last element), and what
\* RustExtendable.text assigns for a container
OwnText(h, p) ==
    IF IsExtendable(h[p].kind)
    THEN Header(h, p)
         \o JoinTexts(Sep(h, p), [i \in DOMAIN Items(h, p) |-> Text(h, Items(h, p)[i])])
         \o Tail_(h, p)
    ELSE IF h[p].kind = "useid" THEN h[p].last \o h[p].name
    ELSE <<h[p].kind, " ">> \o h[p].name \o <<" ", ToString(h[p].body)>>

\* Piece.__eq__
PieceEq(h, p, q) == p = q \/ Text(h, p) = Text(h, q)

\* RustExtendable.remove without its closing `if not self.items` step
ExtRemoveOnce(h, c, item) ==
    LET Deleted(h1) ==
            IF \E i \in DOMAIN h1[c].items : PieceEq(h1, h1[c].items[i], item)
            THEN [h1 EXCEPT ![c].items = DelItem(h1, @, h1[item].name)]
            ELSE h1
    IN  Deleted([h EXCEPT ![item].parent = None])

RECURSIVE ExtRemove(_, _, _)
\* RustExtendable.remove, with the remove_from_parent() call it ends in
ExtRemove(h, c, item) ==
    LET Emptied_(h2) == IF h2[c].items = <<>> /\ h2[c].parent # None
                        THEN ExtRemove(h2, h2[c].parent, c)
                        ELSE h2
        Deleted(h1) ==
            Emptied_(IF \E i \in DOMAIN h1[c].items : PieceEq(h1, h1[c].items[i], item)
                     THEN [h1 EXCEPT ![c].items = DelItem(h1, @, h1[item].name)]
                     ELSE h1)
    IN  Deleted([h EXCEPT ![item].parent = None])

\* RustPiece.remove_from_parent
RemoveFromParent(h, p) ==
    IF h[p].parent = None THEN h ELSE ExtRemove(h, h[p].parent, p)

\* RustExtendable.remove_by_name
RemoveByName(h, c, nm) ==
    LET Removed(old) == IF old = None THEN h ELSE ExtRemove(h, c, old)
    IN Removed(GetItem(h, c, nm))

\* __add without the assignment of the parent link
AddIfAbsentUnlinked(h, c, item) ==
    IF GetItem(h, c, h[item].name) # None
    THEN [heap |-> h, ok |-> FALSE]
    ELSE [heap |-> [h EXCEPT ![c].items = Append(@, item)], ok |-> TRUE]

\* RustExtendable.__add: add the item only if its name is free
AddIfAbsent(h, c, item) ==
    IF GetItem(h, c, h[item].name) # None
    THEN [heap |-> h, ok |-> FALSE]
    ELSE [heap |-> [h EXCEPT ![c].items = Append(@, item), ![item].parent = c],
          ok |-> TRUE]

RECURSIVE Transplant(_, _, _, _)
\* the loop of RustExtendable.add over old_item.items: the sub-items of the old
\* container whose name is free in the new one are moved into it and reported
Transplant(h, item, subs, popped) ==
    IF subs = <<>> THEN [heap |-> h, popped |-> popped]
    ELSE LET Rest(r) == Transplant(r.heap, item, Tail(subs),
                                   IF r.ok THEN Append(popped, Head(subs)) ELSE popped)
         IN Rest(AddIfAbsent(h, item, Head(subs)))

\* RustExtendable.add without the transplant of the old container's sub-items
ExtAddNoTransplant(h, c, item) ==
    LET Put(h2, popped) ==
            [heap |-> [h2 EXCEPT ![c].items = Append(@, item), ![item].parent = c],
             popped |-> popped]
        Replace(old) == IF old # None THEN Put(ExtRemove(h, c, old), <<old>>)
                        ELSE Put(h, <<>>)
    IN Replace(GetItem(h, c, h[item].name))

\* RustExtendable.add: returns the new heap and the list `popped`
ExtAdd(h, c, item) ==
    LET Put(h2, popped) ==
            [heap |-> [h2 EXCEPT ![c].items = Append(@, item), ![item].parent = c],
             popped |-> popped]
        Replace(old, t) ==
            IF old # None THEN Put(ExtRemove(t.heap, c, old), Append(t.popped, old))
            ELSE Put(t.heap, t.popped)
        Merge(old) ==
            Replace(old,
                    IF old # None /\ IsExtendable(h[item].kind) /\ h[old].kind = h[item].kind
                    THEN Transplant(h, item, Items(h, old), <<>>)
                    ELSE [heap |-> h, popped |-> <<>>])
    IN Merge(GetItem(h, c, h[item].name))

\* RustUse.decl_names: the names an import binds, as <<name, id>> pairs in the
\* order of the items; `self` binds the last path element, a later item
\* binding the same name overrides the earlier one
DeclNames(h, u) ==
    LET bound(p) == IF h[p].name = N_self THEN h[u].last ELSE h[p].name
        Names(its) ==
            LET lastIdx(n) == CHOOSE i \in DOMAIN its :
                                 /\ bound(its[i]) = n
                                 /\ \A j \in DOMAIN its : bound(its[j]) = n => j <= i
                firstIdx(n) == CHOOSE i \in DOMAIN its :
                                 /\ bound(its[i]) = n
                                 /\ \A j \in DOMAIN its : bound(its[j]) = n => i <= j
                InOrder(order) ==
                    [k \in DOMAIN order |->
                        <<bound(its[order[k]]), its[lastIdx(bound(its[order[k]]))]>>]
            IN InOrder(SeqOfSet({firstIdx(bound(its[i])) : i \in DOMAIN its}))
    IN Names(Items(h, u))

RECURSIVE EvictImports(_, _, _)
\* the loop of RustCode.add over the names bound by an added import
EvictImports(h, c, names) ==
    IF names = <<>> THEN h
    ELSE LET nm == Head(names)[1]
             Unbound(bnd) == IF bnd = {} THEN h
                             ELSE RemoveFromParent(h, (CHOOSE d \in bnd : TRUE)[2])
         IN EvictImports(RemoveByName(Unbound({d \in h[c].use_decls : d[1] = nm}), c, nm),
                         c, Tail(names))

\* RustCode.add
CodeAdd(h, c, item) ==
    LET Rebound(names) ==
            [EvictImports(h, c, names) EXCEPT ![c].use_decls =
                {d \in @ : d[1] \notin {names[i][1] : i \in DOMAIN names}} \cup Range(names)]
    IN ExtAdd(IF h[item].kind = "use" THEN Rebound(DeclNames(h, item)) ELSE h, c, item)

\* the add method of the container's class
Add(h, c, item) == IF h[c].kind = "code" THEN CodeAdd(h, c, item) ELSE ExtAdd(h, c, item)

RECURSIVE MergeLoop(_, _, _, _)
MergeLoop(h, c, its, popped) ==
    IF its = <<>> THEN [heap |-> h, popped |-> popped]
    ELSE LET Rest(r) == MergeLoop(r.heap, c, Tail(its), popped \o r.popped)
         IN Rest(CodeAdd(h, c, Head(its)))

\* RustCode.merge_in
MergeIn(h, c, other) == MergeLoop(h, c, Items(h, other), <<>>)

RECURSIVE Contains(_, _, _)
\* RustExtendable.contains: c is an ancestor of p along the parent links
Contains(h, c, p) ==
    IF h[p].parent = None THEN FALSE
    ELSE IF h[p].parent = c THEN TRUE
    ELSE Contains(h, c, h[p].parent)

RECURSIVE Descendants(_, _)
\* the Pieces stored in the tree below c (through the containers' item tables)
Descendants(h, c) ==
    UNION {{p} \cup (IF IsExtendable(h[p].kind) THEN Descendants(h, p) ELSE {})
           : p \in Range(h[c].items)}

\* the root of the tree a Piece hangs in (RustPiece.root)
RECURSIVE RootOf(_, _)
RootOf(h, p) == IF h[p].parent = None THEN p ELSE RootOf(h, h[p].parent)

(***************************************************************************)
(* SpecPiece: the parser has created Pieces (RustImpl.create and           *)
(* RustUse.create fill their containers with add); they are added to the   *)
(* program root or to a container in its tree, detached with               *)
(* remove_from_parent, given a comment with set_comment, or parsed as one  *)
(* text and merged with merge_in.                                          *)
(***************************************************************************)
MaxTextItems == 2       \* top-level items of a text given to from_text

\* comm is the list of the lines of _comm_text and attr the number of lines of
\* _attr_text, which Piece.text puts before the Piece's own text
MkPiece(kind, name, body, lst) ==
    [kind |-> kind, name |-> name, body |-> body, last |-> lst, comm |-> <<>>, attr |-> 0,
     parent |-> None, items |-> <<>>, use_decls |-> {}]

ProgramRoot == 1        \* the RustCode the workspace accumulates

RECURSIVE AddAll(_, _, _)
\* the loop of a create method: c.add(item) for every extracted item
AddAll(h, c, its) ==
    IF its = <<>> THEN h ELSE AddAll(Add(h, c, Head(its)).heap, c, Tail(its))

\* A text with impl blocks: the program root (1), two impl blocks of the same
\* type (2, 3) and functions a (4), q (5), b (6) and b' (7).  RustImpl.create
\* has filled the first block with b (and a when `inside` has it) and the
\* second with q (and b' when `inside` has it); the rest are top-level items.
ImplPool ==
    << MkPiece("code", <<>>, 0, <<>>),
       MkPiece("impl", ImplName(N_T), 0, N_T),
       MkPiece("impl", ImplName(N_T), 0, N_T),
       MkPiece("fn", N_a, 1, <<>>),
       MkPiece("fn", N_q, 1, <<>>),
       MkPiece("fn", N_b, 1, <<>>),
       MkPiece("fn", N_b, 2, <<>>) >>

ImplForest(inside) ==
    LET ids == [i \in 1..Len(ImplPool) |-> i]
        h1 == AddAll(ImplPool, 2, SelectSeq(ids, LAMBDA p : p = 6 \/ (p = 4 /\ p \in inside)))
    IN AddAll(h1, 3, SelectSeq(ids, LAMBDA p : p \in inside /\ (p = 5 \/ p > 6)))

\* A text with imports: the program root, `use p::q::{self, ..}`,
\* `use p::q::{q, ..}`, the identifier x in the import `xin` names (if any), and
\* a top-level function q.
UsePool ==
    << MkPiece("code", <<>>, 0, <<>>),
       MkPiece("use", UseName(<<"p", "::", "q">>), 0, N_q),
       MkPiece("use", UseName(<<"p", "::", "q">>), 0, N_q),
       MkPiece("useid", N_self, 0, <<>>),
       MkPiece("useid", N_q, 0, <<>>),
       MkPiece("useid", N_x, 0, <<>>),
       MkPiece("fn", N_q, 1, <<>>) >>

UseForest(xin) ==
    AddAll(AddAll(UsePool, 2, IF xin = 2 THEN <<4, 6>> ELSE <<4>>),
           3, IF xin = 3 THEN <<5, 6>> ELSE <<5>>)

\* A text with an import that binds one name through two identifiers: the
\* program root, `use p::q::{self, q}`, `use r::{q}` and `use p::q::{q}`.
SelfPool ==
    << MkPiece("code", <<>>, 0, <<>>),
       MkPiece("use", UseName(<<"p", "::", "q">>), 0, N_q),
       MkPiece("use", UseName(<<"r">>), 0, <<"r">>),
       MkPiece("useid", N_self, 0, <<>>),
       MkPiece("useid", N_q, 0, <<>>),
       MkPiece("useid", N_q, 0, <<>>),
       MkPiece("use", UseName(<<"p", "::", "q">>), 0, N_q),
       MkPiece("useid", N_q, 0, <<>>) >>

SelfForest == AddAll(AddAll(AddAll(SelfPool, 2, <<4, 5>>), 3, <<6>>), 7, <<8>>)

ParsedForests ==
    {ImplForest(inside \cup {5}) : inside \in SUBSET {4, 7}}
    \cup {UseForest(xin) : xin \in {0, 2, 3}}
    \cup {SelfForest}

\* the Pieces a text may hold at its top level
TopLevel(h) == {p \in DOMAIN h :
                   h[p].parent = None /\ h[p].kind \in {"impl", "use", "fn"}}

\* what the constructors put into which container (RustCode.create,
\* RustImpl.create, RustUse.create, RustStruct.create)
Accepts(ck, ik) ==
    \/ ck = "code" /\ ik \in {"impl", "use", "fn", "struct"}
    \/ ck = "impl" /\ ik = "fn"
    \/ ck = "use" /\ ik = "useid"
    \/ ck = "struct" /\ ik = "field"

Idle == [idle |-> TRUE]

InitPiece ==
    /\ heap \in ParsedForests
    /\ spent = {p \in DOMAIN heap : heap[p].parent # None}
    /\ last = [op |-> "none", c |-> None, item |-> None, popped |-> <<>>, pre |-> heap]
    /\ mres = Idle /\ ws = Idle /\ nc = Idle /\ ec = Idle /\ rp = Idle

othersOfPiece == <<mres, ws, nc, ec, rp>>

\* container.add(item), for the program root or a container in its tree
PieceAdd(c, item) ==
    /\ c \in {ProgramRoot} \cup Descendants(heap, ProgramRoot)
    /\ IsExtendable(heap[c].kind) /\ Accepts(heap[c].kind, heap[item].kind)
    /\ item \in TopLevel(heap) \ spent
    /\ \E r \in {Add(heap, c, item)} :
          /\ heap' = r.heap
          /\ last' = [op |-> "add", c |-> c, item |-> item, popped |-> r.popped, pre |-> heap]
    /\ spent' = spent \cup {item}
    /\ UNCHANGED othersOfPiece

\* piece.remove_from_parent(), for a Piece in the tree of the program root
PieceRemove(p) ==
    /\ p \in Descendants(heap, ProgramRoot)
    /\ heap' = RemoveFromParent(heap, p)
    /\ last' = [op |-> "remove", c |-> heap[p].parent, item |-> p, popped |-> <<>>, pre |-> heap]
    /\ UNCHANGED <<spent, othersOfPiece>>

MaxCommented == 1       \* the Pieces that have a comment at a time
MaxCommentLines == 1    \* the lines of a comment

\* RustPiece.set_comment: _comm_text becomes the comment `lines`
SetComment(h, p, lines) == [h EXCEPT ![p].comm = lines]

\* p.set_comment(comment) for a Piece of the program
PieceSetComment(p, lines) ==
    /\ p \in {ProgramRoot} \cup Descendants(heap, ProgramRoot)
    /\ Cardinality({q \in DOMAIN heap \ {p} : heap[q].comm # <<>>}) < MaxCommented
    /\ heap' = SetComment(heap, p, lines)
    /\ last' = [op |-> "set_comment", c |-> None, item |-> p, popped |-> <<>>, pre |-> heap]
    /\ UNCHANGED <<spent, othersOfPiece>>

\* program.merge_in(RustCode.from_text(text)): the text's items are added to a
\* new RustCode in text order, which is then merged into the program root
PieceMergeIn(text) ==
    /\ text # <<>> /\ Range(text) \subseteq TopLevel(heap) \ spent
    /\ \A i, j \in DOMAIN text : i # j => text[i] # text[j]
    /\ \E h1 \in {AddAll(Append(heap, MkPiece("code", <<>>, 0, <<>>)), Len(heap) + 1, text)} :
       \E r \in {MergeIn(h1, ProgramRoot, Len(heap) + 1)} :
          /\ heap' = r.heap
          /\ last' = [op |-> "merge_in", c |-> ProgramRoot, item |-> Len(heap) + 1,
                      popped |-> r.popped, pre |-> h1]
    /\ spent' = spent \cup Range(text)
    /\ UNCHANGED othersOfPiece

RECURSIVE Texts(_, _)
\* the texts of at most n top-level items out of S, in any order
Texts(S, n) ==
    IF n = 0 THEN {<<>>}
    ELSE {<<>>} \cup UNION {{<<x>> \o t : t \in Texts(S \ {x}, n - 1)} : x \in S}

NextPiece ==
    \/ \E c \in DOMAIN heap, item \in DOMAIN heap : PieceAdd(c, item)
    \/ \E p \in DOMAIN heap : PieceRemove(p)
    \/ \E p \in DOMAIN heap, n \in 0..MaxCommentLines : PieceSetComment(p, CommentOf(n))
    \/ \E text \in Texts(TopLevel(heap) \ spent, MaxTextItems) : PieceMergeIn(text)

SpecPiece == InitPiece /\ [][NextPiece]_vars

(***************************************************************************)
(* Claims about add and merge_in (SpecPiece).                              *)
(***************************************************************************)
\* the child the container held under the name of the added item
OldOfLastAdd == GetItem(last.pre, last.c, last.pre[last.item].name)

\* the last operation was add(new) over a child `old` of the same name, both
\* containers of the same concrete kind
AddOverSameKind ==
    /\ last.op = "add"
    /\ OldOfLastAdd # None
    /\ IsExtendable(last.pre[last.item].kind)
    /\ last.pre[OldOfLastAdd].kind = last.pre[last.item].kind

\* the children of old whose name is absent in new
OldOnly ==
    {s \in Range(last.pre[OldOfLastAdd].items) :
        GetItem(last.pre, last.item, last.pre[s].name) = None}

\* the name an identifier of an import binds
BoundName(h, u, p) == IF h[p].name = N_self THEN h[u].last ELSE h[p].name

\* the children of old that the Program root has on record (use_decls) as the
\* binding of a name the added import binds
ReboundImports ==
    IF last.pre[last.c].kind = "code" /\ last.pre[last.item].kind = "use"
    THEN {s \in Range(last.pre[OldOfLastAdd].items) :
            \E d \in last.pre[last.c].use_decls,
               n \in Range(DeclNames(last.pre, last.item)) : d[2] = s /\ d[1] = n[1]}
    ELSE {}

\* an import was added to the Program root over `use p::q::{self, q}`: the
\* identifier q, on record as the binding of q, was detached and self, which
\* binds q too, was transplanted
C1_SelfWitness ==
    /\ AddOverSameKind
    /\ last.pre[last.c].kind = "code"
    /\ ReboundImports # {}
    /\ \E s \in OldOnly \ ReboundImports :
          /\ last.pre[s].name = N_self
          /\ s \in Range(heap[last.item].items)

\* C1 as stated: after add(new) over old of the same kind, the container stores
\* new under the name, and the children of new are its own children plus every
\* child of old whose name is absent in new.
C1_NewWinsUnionAnyContainer ==
    AddOverSameKind =>
        /\ GetItem(heap, last.c, heap[last.item].name) = last.item
        /\ Range(heap[last.item].items) = Range(last.pre[last.item].items) \cup OldOnly

\* C1 amended: as C1, except that the Program root, before it stores an
\* import, detaches for every name the import binds the identifier it has on
\* record as the binding of that name; a child of old detached this way is
\* not among the children of new.
C1_NewWinsUnion ==
    AddOverSameKind =>
        /\ GetItem(heap, last.c, heap[last.item].name) = last.item
        /\ Range(heap[last.item].items) =
              Range(last.pre[last.item].items) \cup (OldOnly \ ReboundImports)

\* {B', C} over {A, B} gave {A, B', C}: A was transplanted, B replaced, C added
C1_Witness ==
    /\ AddOverSameKind
    /\ \E a \in OldOnly : a \in Range(heap[last.item].items)
    /\ \E b \in Range(last.pre[OldOfLastAdd].items) :
          /\ GetItem(last.pre, last.item, last.pre[b].name) \notin {None, b}
          /\ b \notin Range(heap[last.item].items)
    /\ \E c \in Range(last.pre[last.item].items) :
          GetItem(last.pre, OldOfLastAdd, last.pre[c].name) = None

\* C2: add returns exactly the Pieces it evicted from the tree: no returned
\* Piece is in the tree afterwards, and every Piece that was in the tree before
\* and is not afterwards is returned.
C2_ReturnsEvicted ==
    last.op = "add" =>
        LET root == RootOf(last.pre, last.c)
            before == Descendants(last.pre, root)
            after == Descendants(heap, root)
        IN /\ Range(last.popped) \cap after = {}
           /\ before \ after \subseteq Range(last.popped)

(***************************************************************************)
(* Names as the matcher compares them (analyzer/utils.py).                 *)
(***************************************************************************)
\* the letters of the names used below, as <<lower, upper>> pairs
Letters == << <<"a", "A">>, <<"b", "B">>, <<"e", "E">>, <<"s", "S">>,
              <<"t", "T">>, <<"q", "Q">>, <<"x", "X">>, <<"p", "P">> >>

IsLower(ch) == \E i \in DOMAIN Letters : Letters[i][1] = ch
IsUpper(ch) == \E i \in DOMAIN Letters : Letters[i][2] = ch

\* str.lower on one character
ToLower(ch) ==
    IF IsUpper(ch) THEN Letters[CHOOSE i \in DOMAIN Letters : Letters[i][2] = ch][1] ELSE ch

\* str.lower
StrLower(s) == [i \in DOMAIN s |-> ToLower(s[i])]

RECURSIVE CamelSplit(_)
\* re.sub(r"([a-z])([A-Z])", r"\1 \2", name)
CamelSplit(s) ==
    IF Len(s) < 2 THEN s
    ELSE IF IsLower(s[1]) /\ IsUpper(s[2])
         THEN <<s[1], " ">> \o CamelSplit(Tail(s))
         ELSE <<s[1]>> \o CamelSplit(Tail(s))

IsSep(ch) == ch \in {"_", " "}

RECURSIVE ReSplit(_, _, _)
\* re.split(r"[_\s]+", name): cur is the token being read, inSep tells that the
\* previous character was a separator
ReSplit(s, cur, inSep) ==
    IF s = <<>> THEN <<cur>>
    ELSE IF IsSep(Head(s))
         THEN IF inSep THEN ReSplit(Tail(s), cur, TRUE)
              ELSE <<cur>> \o ReSplit(Tail(s), <<>>, TRUE)
         ELSE ReSplit(Tail(s), Append(cur, Head(s)), FALSE)

\* tokenize
Tokenize(name) == ReSplit(StrLower(CamelSplit(name)), <<>>, FALSE)

RECURSIVE Join(_)
\* "".join(tokens)
Join(tokens) == IF tokens = <<>> THEN <<>> ELSE Head(tokens) \o Join(Tail(tokens))

\* exact_same_names
ExactSameNames(n1, n2) == n1 # <<>> /\ n2 # <<>> /\ n1 = n2

\* tokens_same_names
TokensSameNames(n1, n2) ==
    n1 # <<>> /\ n2 # <<>> /\ Join(Tokenize(n1)) = Join(Tokenize(n2))

\* the first element of a sequence that satisfies P, as a list of length <= 1
FirstWhere(pieces, P(_)) ==
    LET idx == {i \in DOMAIN pieces : P(pieces[i])}
    IN IF idx = {} THEN <<>>
       ELSE <<pieces[CHOOSE i \in idx : \A j \in idx : i <= j]>>

\* Python's `a or b` on lists
OrElse(a, b) == IF a # <<>> THEN a ELSE b

\* _match_similarly with threshold 100: fuzz.ratio of two names of this length
\* is 100 only for equal names, and max() keeps the first of the best matches
MatchSimilarly(h, name, pieces, kinds, convert_name(_)) ==
    IF name = <<>> THEN <<>>
    ELSE FirstWhere(pieces, LAMBDA p :
            /\ h[p].kind \in kinds
            /\ h[p].name # <<>>
            /\ convert_name(h[p].name) = convert_name(name))

\* match_by_tokens
MatchByTokens(h, name, pieces, kinds) ==
    IF name = <<>> THEN <<>>
    ELSE FirstWhere(pieces, LAMBDA p :
            /\ h[p].kind \in kinds
            /\ h[p].name # <<>>
            /\ Join(Tokenize(h[p].name)) = Join(Tokenize(name)))

\* the match by tokens alone, without the exact pass before it
MatchTokensOnly(h, name, pieces, kinds) == MatchByTokens(h, name, pieces, kinds)

\* match_exactly_or_by_tokens
MatchExactlyOrByTokens(h, name, pieces, kinds) ==
    OrElse(MatchSimilarly(h, name, pieces, kinds, LAMBDA x : x),
           MatchByTokens(h, name, pieces, kinds))

\* match_exactly_lower
MatchExactlyLower(h, name, pieces, kinds) ==
    MatchSimilarly(h, name, pieces, kinds, StrLower)

(***************************************************************************)
(* TreesitterMatcher (analyzer/matcher.py).  A CPiece is a record          *)
(*   [kind, name, body, enumerator_names, is_function, body_piece, names,  *)
(*    is_funcs];                                                           *)
(* CPieces compare by their text, that is, as records.  enumerator_names   *)
(* is the set of a CEnum in the order its iteration yields the names;      *)
(* body_piece is <<>> for None and <<cp>> for the CPiece of the body;      *)
(* names are the declarators of a CMultipleTypedef or CMultipleDeclaration *)
(* and is_funcs[i] tells whether the i-th of them declares a function.     *)
(***************************************************************************)
MkCPiece(kind, name, body) ==
    [kind |-> kind, name |-> name, body |-> body,
     enumerator_names |-> <<>>, is_function |-> FALSE,
     body_piece |-> <<>>, names |-> <<>>, is_funcs |-> <<>>]

\* TreesitterMatcher._counter_kinds for a source kind
CounterKinds(k) ==
    CASE k \in {"CTypedef", "CUsing"} -> {"type"}
      [] k = "CMacro" -> {"macro", "const"}
      [] k = "CMacroFun" -> {"macro", "fn"}
      [] k = "CFunction" -> {"fn"}
      [] k = "CEnum" -> {"enum"}
      [] k \in {"CStruct", "CClass"} -> {"struct"}
      [] OTHER -> {}

RECURSIVE ChildrenOf(_, _, _)
\* the items of the target pieces of the given kinds, in the order of the
\* nested loops `for rust_piece in target_pieces: for item in rust_piece.items`
ChildrenOf(h, pieces, kinds) ==
    IF pieces = <<>> THEN <<>>
    ELSE (IF h[Head(pieces)].kind \in kinds THEN Items(h, Head(pieces)) ELSE <<>>)
         \o ChildrenOf(h, Tail(pieces), kinds)

\* match_field of the CDeclaration case
MatchField(h, name, target_pieces) ==
    FirstWhere(ChildrenOf(h, target_pieces, {"struct"}),
               LAMBDA item : ExactSameNames(name, h[item].name))

\* match_impl_method of the CFunction case
MatchImplMethod(h, name, target_pieces) ==
    FirstWhere(ChildrenOf(h, target_pieces, {"impl", "impltrait"}),
               LAMBDA item :
                  /\ h[item].kind = "fn"
                  /\ \/ ExactSameNames(name, h[item].name)
                     \/ TokensSameNames(name, h[h[item].parent].last \o <<"_">> \o h[item].name))

\* match_enumerators that compares the member names as they are written
MatchEnumeratorsCased(h, cp, target_pieces) ==
    FirstWhere(target_pieces, LAMBDA c :
        /\ h[c].kind = "enum"
        /\ {h[i].name : i \in Range(Items(h, c))} = Range(cp.enumerator_names))

\* match_enumerators of the CEnum case
MatchEnumerators(h, cp, target_pieces) ==
    FirstWhere(target_pieces, LAMBDA c :
        /\ h[c].kind = "enum"
        /\ {StrLower(h[i].name) : i \in Range(Items(h, c))}
             = {StrLower(n) : n \in Range(cp.enumerator_names)})

RECURSIVE MatchDeclarations(_, _, _)
\* match_declarations of the CEnum case, a generator over the enumerator names
MatchDeclarations(h, names, target_pieces) ==
    IF names = <<>> THEN <<>>
    ELSE MatchExactlyOrByTokens(h, Head(names), target_pieces, {"const", "static"})
         \o MatchDeclarations(h, Tail(names), target_pieces)

\* match_piece, CFunction
MatchFunction(h, cp, target_pieces) ==
    OrElse(MatchExactlyOrByTokens(h, cp.name, target_pieces, CounterKinds(cp.kind)),
           MatchImplMethod(h, cp.name, target_pieces))

\* match_piece, CEnum: the last alternative is a generator object, which is
\* true even when it yields nothing
MatchEnum(h, cp, target_pieces) ==
    OrElse(MatchExactlyOrByTokens(h, cp.name, target_pieces, CounterKinds(cp.kind)),
    OrElse(MatchByTokens(h, cp.name, target_pieces, CounterKinds(cp.kind)),
    OrElse(MatchEnumerators(h, cp, target_pieces),
           MatchDeclarations(h, cp.enumerator_names, target_pieces))))

\* match_piece, CDeclaration
MatchDeclaration(h, cp, target_pieces) ==
    IF cp.is_function
    THEN MatchExactlyOrByTokens(h, cp.name, target_pieces, {"fnsig"})
    ELSE OrElse(MatchExactlyOrByTokens(h, cp.name, target_pieces, {"const", "static"}),
                MatchField(h, cp.name, target_pieces))

\* match_piece, CMacro
MatchMacro(h, cp, target_pieces) ==
    OrElse(MatchExactlyOrByTokens(h, cp.name, target_pieces, CounterKinds(cp.kind)),
           MatchExactlyLower(h, cp.name, target_pieces, CounterKinds(cp.kind)))

\* match_piece, CTypedef and CUsing, for the result `of_body` of
\* match_piece(piece.body_piece, target_pieces): the body first, then the name
\* against the kinds of the body, then against the type items; what match_piece
\* returns for a CEnum is true in any case (a list that is not empty, or the
\* generator object of match_declarations)
MatchTypedef(h, cp, target_pieces, of_body) ==
    IF cp.body_piece = <<>>
    THEN MatchExactlyOrByTokens(h, cp.name, target_pieces, CounterKinds(cp.kind))
    ELSE IF of_body # <<>> \/ cp.body_piece[1].kind = "CEnum"
         THEN of_body
         ELSE OrElse(MatchExactlyOrByTokens(h, cp.name, target_pieces,
                                            CounterKinds(cp.body_piece[1].kind)),
                     MatchExactlyOrByTokens(h, cp.name, target_pieces,
                                            CounterKinds(cp.kind)))

RECURSIVE MatchMultipleTypedef(_, _, _, _)
\* match_piece, CMultipleTypedef: a generator over piece.names
MatchMultipleTypedef(h, cp, names, target_pieces) ==
    IF names = <<>> THEN <<>>
    ELSE MatchExactlyOrByTokens(h, Head(names), target_pieces,
                                IF cp.body_piece # <<>>
                                THEN CounterKinds(cp.body_piece[1].kind) ELSE {"type"})
         \o MatchMultipleTypedef(h, cp, Tail(names), target_pieces)

\* piece.is_funcs[d]: the dict keeps the value of the last declarator named d
IsFunc(cp, d) ==
    cp.is_funcs[CHOOSE i \in DOMAIN cp.names :
                    cp.names[i] = d /\ \A j \in DOMAIN cp.names : cp.names[j] = d => j <= i]

RECURSIVE MatchMultipleDeclaration(_, _, _, _)
\* match_piece, CMultipleDeclaration: matches.extend(match_declarator_case(d))
\* for d in piece.names
MatchMultipleDeclaration(h, cp, names, target_pieces) ==
    IF names = <<>> THEN <<>>
    ELSE (IF IsFunc(cp, Head(names))
          THEN MatchExactlyOrByTokens(h, Head(names), target_pieces, {"fnsig"})
          ELSE OrElse(MatchExactlyOrByTokens(h, Head(names), target_pieces,
                                             {"const", "static"}),
                      MatchField(h, Head(names), target_pieces)))
         \o MatchMultipleDeclaration(h, cp, Tail(names), target_pieces)

RECURSIVE MatchPiece(_, _, _)
\* TreesitterMatcher.match_piece: the dispatch on the class of the source piece
MatchPiece(h, cp, target_pieces) ==
    CASE cp.kind = "CFunction" -> MatchFunction(h, cp, target_pieces)
      [] cp.kind = "CEnum" -> MatchEnum(h, cp, target_pieces)
      [] cp.kind = "CDeclaration" -> MatchDeclaration(h, cp, target_pieces)
      [] cp.kind = "CMacro" -> MatchMacro(h, cp, target_pieces)
      [] cp.kind \in {"CTypedef", "CUsing"} ->
            MatchTypedef(h, cp, target_pieces,
                         IF cp.body_piece = <<>> THEN <<>>
                         ELSE MatchPiece(h, cp.body_piece[1], target_pieces))
      [] cp.kind = "CMultipleTypedef" ->
            MatchMultipleTypedef(h, cp, cp.names, target_pieces)
      [] cp.kind = "CMultipleDeclaration" ->
            MatchMultipleDeclaration(h, cp, cp.names, target_pieces)
      [] cp.kind \in {"CMacroFun", "CUnion", "CStruct", "CClass"} ->
            MatchExactlyOrByTokens(h, cp.name, target_pieces, CounterKinds(cp.kind))
      [] OTHER -> <<>>

\* A text is a sequence of item descriptions [kind, name, body, last, comm, attr, items];
\* the items of a description are descriptions of leaves.
MkDesc(kind, name, body, lst, items) ==
    [kind |-> kind, name |-> name, body |-> body, last |-> lst, comm |-> <<>>, attr |-> 0,
     items |-> items]

RECURSIVE CreateItems(_, _, _)
\* the loop of a create method: every extracted item is created (its own
\* items first) and added to the container c
CreateItems(h, c, descs) ==
    IF descs = <<>> THEN h
    ELSE LET d == Head(descs)
             id == Len(h) + 1
             h1 == Append(h, [MkPiece(d.kind, d.name, d.body, d.last) EXCEPT !.comm = d.comm, !.attr = d.attr])
             h2 == CreateItems(h1, id, d.items)
         IN CreateItems(Add(h2, c, id).heap, c, Tail(descs))

\* a create method for one extracted item: the new heap and the id of the Piece
CreatePiece(h, d) ==
    [heap |-> CreateItems(Append(h, [MkPiece(d.kind, d.name, d.body, d.last) EXCEPT !.comm = d.comm, !.attr = d.attr]),
                          Len(h) + 1, d.items),
     id |-> Len(h) + 1]

\* RustCode.from_text: the new heap and the id of the new RustCode
FromText(h, text) ==
    LET root == Len(h) + 1
    IN [heap |-> CreateItems(Append(h, MkPiece("code", <<>>, 0, <<>>)), root, text),
        root |-> root]

RECURSIVE NormalizeLoop(_, _, _)
NormalizeLoop(h, c, its) ==
    IF its = <<>> THEN h
    ELSE LET p == Head(its)
             crate == h[p].kind = "use" /\ Len(h[p].name) > 1 /\ h[p].name[2] = "crate"
         IN NormalizeLoop(IF crate THEN ExtRemove(h, c, p) ELSE h, c, Tail(its))

\* RustCode.normalize: drop the imports whose path starts with `crate` (the
\* path of a parsed import never does, see R_use_crate_x)
Normalize(h, c) == NormalizeLoop(h, c, Items(h, c))

RECURSIVE PutAll(_, _, _)
\* the inner loop of TreesitterMatcher.__init__: c_pieces[p] = s
PutAll(d, ps, s) ==
    IF ps = <<>> THEN d
    ELSE LET at == {i \in DOMAIN d : d[i][1] = Head(ps)}
         IN PutAll(IF at = {} THEN Append(d, <<Head(ps), s>>)
                   ELSE [d EXCEPT ![CHOOSE i \in at : TRUE] = <<Head(ps), s>>],
                   Tail(ps), s)

RECURSIVE CPiecesOf(_, _, _)
\* TreesitterMatcher.__init__: the dict c_pieces as the list of its <<key, value>>
\* pairs in insertion order; `order` is the iteration order of the segments
CPiecesOf(d, segments, order) ==
    IF order = <<>> THEN d
    ELSE CPiecesOf(PutAll(d, segments[Head(order)], Head(order)), segments, Tail(order))

RECURSIVE MatchesOf(_, _, _, _)
\* the loop of _match over c_pieces: matches[c_pieces[cp]].extend(match_rps);
\* the defaultdict creates the entry of the segment when it is read
MatchesOf(h, m, c_pieces, target_pieces) ==
    IF c_pieces = <<>> THEN m
    ELSE LET cp == Head(c_pieces)[1]
             s == Head(c_pieces)[2]
             at == {i \in DOMAIN m : m[i][1] = s}
             Extended(match_rps) ==
                 IF at = {} THEN Append(m, <<s, match_rps>>)
                 ELSE LET i == CHOOSE k \in at : TRUE
                      IN [m EXCEPT ![i] = <<s, m[i][2] \o match_rps>>]
         IN MatchesOf(h, Extended(MatchPiece(h, cp, target_pieces)),
                      Tail(c_pieces), target_pieces)

\* the value _match returns without the filter on empty lists
MatchResultUnfiltered(matches) == matches

\* the value _match returns: {s: ps for s, ps in matches.items() if ps}
MatchResult(matches) == SelectSeq(matches, LAMBDA e : e[2] # <<>>)

\* TreesitterMatcher._match; strict tells whether match_fail raises.  The
\* result: the heap with the parsed text, the RustCode, whether MatchFail was
\* raised, and the returned mapping as the list of its <<segment, pieces>> items
MatchCore(h, segments, order, text, strict) ==
    LET Result(h1, code, matches, raised) ==
            [heap |-> h1, code |-> code, raised |-> raised,
             match |-> IF raised THEN <<>> ELSE MatchResult(matches)]
        Checked(h1, code, matches) ==
            Result(h1, code, matches,
                   strict /\ DOMAIN segments \ {matches[i][1] : i \in DOMAIN matches} # {})
        Matched(h1, code) ==
            Checked(h1, code,
                    MatchesOf(h1, <<>>, CPiecesOf(<<>>, segments, order), Items(h1, code)))
        Parsed(parsed) == Matched(Normalize(parsed.heap, parsed.root), parsed.root)
    IN Parsed(FromText(h, text))

\* TreesitterMatcher.match
Match(h, segments, order, text) == MatchCore(h, segments, order, text, TRUE)

\* TreesitterMatcher.try_to_match
TryToMatch(h, segments, order, text) == MatchCore(h, segments, order, text, FALSE)

(***************************************************************************)
(* SpecMatch: a matcher is built over the source units, then match and     *)
(* try_to_match are called on a generated text.  Every call parses the     *)
(* text into fresh Pieces; the Pieces of the call before are dropped, so   *)
(* the same text yields the same ids.                                      *)
(***************************************************************************)
NumUnits == 2           \* source units of a matcher

Units == 1..NumUnits

C_ab   == MkCPiece("CFunction", <<"a", "b">>, 1)
C_aB   == MkCPiece("CFunction", <<"a", "B">>, 1)
C_t_a  == MkCPiece("CFunction", <<"t", "_", "a">>, 1)
C_S    == MkCPiece("CStruct", <<"S">>, 1)
C_x    == MkCPiece("CDeclaration", <<"x">>, 1)
C_enum == [MkCPiece("CEnum", <<>>, 1) EXCEPT !.enumerator_names = << <<"A">> >>]

\* typedef struct { .. } S;
C_typedef_S == [MkCPiece("CTypedef", <<"S">>, 1) EXCEPT
                   !.body_piece = <<MkCPiece("CStruct", <<>>, 1)>>]

\* the CPieces c_pieces_of_text extracts from the text of a unit
SegmentTexts == { <<>>, <<C_ab>>, <<C_aB>>, <<C_t_a>>, <<C_S, C_x>>, <<C_enum>>,
                  <<C_typedef_S>> }

R_fn_ab    == MkDesc("fn", <<"a", "b">>, 1, <<>>, <<>>)
R_fn_a_b   == MkDesc("fn", <<"a", "_", "b">>, 1, <<>>, <<>>)
R_impl_T   == MkDesc("impl", ImplName(N_T), 0, N_T, << MkDesc("fn", N_a, 1, <<>>, <<>>) >>)
R_struct_S == MkDesc("struct", <<"S">>, 0, <<>>, << MkDesc("field", N_x, 1, <<>>, <<>>) >>)
R_enum_E   == MkDesc("enum", <<"E">>, 0, <<>>, << MkDesc("variant", N_a, 1, <<>>, <<>>) >>)
\* `use crate::x;`: get_path skips the `crate` node, so the path of the import
\* is empty, and its identifier is the name node x with the text `x`
R_use_crate_x == MkDesc("use", UseName(<<>>), 0, <<>>, << MkDesc("useid", N_x, 0, <<>>, <<>>) >>)
\* `use p::{q::x};`: the identifier x has the text `q::x`
R_use_p_qx == MkDesc("use", UseName(<<"p">>), 0, <<"p">>,
                     << MkDesc("useid", N_x, 0, <<"q", "::">>, <<>>) >>)

MatchPool == {R_fn_ab, R_fn_a_b, R_impl_T, R_struct_S, R_enum_E, R_use_crate_x, R_use_p_qx}

RECURSIVE Perms(_)
\* the orders in which a set can be iterated
Perms(S) ==
    IF S = {} THEN {<<>>}
    ELSE UNION {{<<x>> \o t : t \in Perms(S \ {x})} : x \in S}

NotCalled == [called |-> FALSE, raised |-> FALSE, match |-> <<>>]

InitMatch ==
    /\ heap = <<>>
    /\ spent = {}
    /\ last = Idle
    /\ \E segments \in [Units -> SegmentTexts], order \in Perms(Units),
          text \in Texts(MatchPool, MaxTextItems) :
          mres = [segments |-> segments, order |-> order, text |-> text,
                  code |-> None, strict |-> NotCalled, tolerant |-> NotCalled]
    /\ ws = Idle /\ nc = Idle /\ ec = Idle /\ rp = Idle

othersOfMatch == <<spent, last, ws, nc, ec, rp>>

\* matcher.match(text)
CallMatch ==
    /\ ~mres.strict.called
    /\ \E r \in {Match(<<>>, mres.segments, mres.order, mres.text)} :
          /\ heap' = r.heap
          /\ mres' = [mres EXCEPT
                        !.code = r.code,
                        !.strict = [called |-> TRUE, raised |-> r.raised, match |-> r.match]]
    /\ UNCHANGED othersOfMatch

\* matcher.try_to_match(text)
CallTryToMatch ==
    /\ ~mres.tolerant.called
    /\ \E r \in {TryToMatch(<<>>, mres.segments, mres.order, mres.text)} :
          /\ heap' = r.heap
          /\ mres' = [mres EXCEPT
                        !.code = r.code,
                        !.tolerant = [called |-> TRUE, raised |-> r.raised, match |-> r.match]]
    /\ UNCHANGED othersOfMatch

NextMatch == CallMatch \/ CallTryToMatch

SpecMatch == InitMatch /\ [][NextMatch]_vars

(***************************************************************************)
(* Claims about match and try_to_match (SpecMatch).                        *)
(***************************************************************************)
\* the target Pieces of the parsed text attributed to unit u: the matches of
\* the source pieces that c_pieces maps to u
AttributedTo(u) ==
    LET cps == CPiecesOf(<<>>, mres.segments, mres.order)
    IN UNION {Range(MatchPiece(heap, cps[i][1], Items(heap, mres.code)))
                : i \in {k \in DOMAIN cps : cps[k][2] = u}}

\* the units that end up with no attributed target Piece
Unmatched == {u \in Units : AttributedTo(u) = {}}

\* C9: match raises MatchFail exactly when some unit of the matcher ends up
\* with zero attributed target Pieces.
C9_StrictRaisesOnUnmatched ==
    mres.strict.called => (mres.strict.raised <=> Unmatched # {})

\* the units a returned mapping has an entry for
KeysOf(m) == {m[i][1] : i \in DOMAIN m}

\* C10: try_to_match never raises; its mapping has exactly the units with at
\* least one matched Piece, none of them mapped to an empty list; and when match
\* returned normally on the same text, the two mappings are equal.
C10_TolerantSkipsUnmatched ==
    mres.tolerant.called =>
        /\ ~mres.tolerant.raised
        /\ KeysOf(mres.tolerant.match) = Units \ Unmatched
        /\ \A i \in DOMAIN mres.tolerant.match :
              /\ mres.tolerant.match[i][2] # <<>>
              /\ Range(mres.tolerant.match[i][2]) = AttributedTo(mres.tolerant.match[i][1])
        /\ (mres.strict.called /\ ~mres.strict.raised) =>
              mres.strict.match = mres.tolerant.match

\* both modes were called on one text, match returned normally, one unit is in
\* the mapping and another one, which has source pieces, is not
C10_Witness ==
    /\ mres.tolerant.called /\ mres.strict.called /\ ~mres.strict.raised
    /\ mres.tolerant.match # <<>>
    /\ \E u \in Unmatched : mres.segments[u] # <<>>

(***************************************************************************)
(* EdgeCentricWorkspace (core/transpilation_workspace.py).                 *)
(***************************************************************************)
RECURSIVE DetachAll(_, _)
\* for p in pieces: p.remove_from_parent()
DetachAll(h, pieces) ==
    IF pieces = <<>> THEN h ELSE DetachAll(RemoveFromParent(h, Head(pieces)), Tail(pieces))

\* seg_of_pieces[p]: the entries a lookup of the Piece p can end on.  The dict is
\* the list of its entries [key, hash, segs] in insertion order: key is the
\* Piece object, hash the hash of its text at the insertion.  The lookup walks
\* the slots the hash of p (of its text as it is now) leads to and ends on an
\* entry whose key is the object p itself, or whose stored hash is the hash of
\* p and whose key is equal to p (by the texts as they are now).  The entries
\* with the stored hash of p are always on its way, in insertion order; an
\* entry of the object p with the hash of an earlier text of p is on its way
\* or not, as the hash values of the run have it.  0 is for no entry.
LookedUp(h, d, p) ==
    LET Hit(text) ==
            LET Ends(same, stale) ==
                    (IF same = {} THEN {0} ELSE {CHOOSE i \in same : \A j \in same : i <= j})
                    \cup stale
            IN Ends({i \in DOMAIN d : d[i].hash = text /\ Text(h, d[i].key) = text},
                    {i \in DOMAIN d : d[i].key = p /\ d[i].hash # text})
    IN Hit(Text(h, p))

RECURSIVE AppendSegment(_, _, _, _)
\* for p in pieces: seg_of_pieces[p].append(segment), for each dict of the set
\* D; a Piece that has no entry gets one with its hash of now
AppendSegment(h, D, pieces, segment) ==
    IF pieces = <<>> THEN D
    ELSE LET Appended(d, i) ==
                IF i = 0
                THEN Append(d, [key |-> Head(pieces), hash |-> Text(h, Head(pieces)),
                                segs |-> <<segment>>])
                ELSE [d EXCEPT ![i].segs = Append(@, segment)]
         IN AppendSegment(h, UNION {{Appended(d, i) : i \in LookedUp(h, d, Head(pieces))}
                                     : d \in D},
                          Tail(pieces), segment)

RECURSIVE PushLoop(_, _, _, _)
\* the loop of push over match.items(); st = [heap, seg_to_pieces, seg_of_pieces],
\* where seg_of_pieces is the set of the dicts the lookups can lead to
PushLoop(st, match, segments, k) ==
    IF k > Len(match) THEN st
    ELSE LET segment == match[k][1]
             pieces == match[k][2]
         IN IF segment \notin segments
            THEN PushLoop([st EXCEPT !.heap = DetachAll(@, pieces)], match, segments, k + 1)
            ELSE PushLoop([st EXCEPT
                             !.seg_to_pieces[segment] = pieces,
                             !.seg_of_pieces = AppendSegment(st.heap, @, pieces, segment)],
                          match, segments, k + 1)

\* push without the detaching of the Pieces matched to units outside the batch
WorkspacePushKeepAll(h, w, batch, text) ==
    LET Merged(r, st) ==
            LET Results(merged) ==
                    {[heap |-> merged,
                      seg_to_pieces |-> st.seg_to_pieces, seg_of_pieces |-> d,
                      match |-> r.match, code |-> r.code, parsed |-> r.heap]
                       : d \in st.seg_of_pieces}
            IN Results(MergeIn(st.heap, ProgramRoot, r.code).heap)
        Matched(r) ==
            Merged(r, PushLoop([heap |-> r.heap, seg_to_pieces |-> w.seg_to_pieces,
                                seg_of_pieces |-> {w.seg_of_pieces}],
                               r.match, DOMAIN w.segments, 1))
    IN Matched(TryToMatch(h, w.segments, w.order, text))

\* EdgeCentricWorkspace.push; batch is [none |-> TRUE] for None and
\* [none |-> FALSE, units |-> S] for a set of units.  The value is the set of
\* the states the call can end in: they differ in seg_of_pieces only, by the
\* lookups of a Piece whose text has changed since its entry was made
WorkspacePush(h, w, batch, text) ==
    LET segments == IF batch.none THEN DOMAIN w.segments ELSE batch.units
        Merged(r, st) ==
            LET Results(merged) ==
                    {[heap |-> merged,
                      seg_to_pieces |-> st.seg_to_pieces, seg_of_pieces |-> d,
                      match |-> r.match, code |-> r.code, parsed |-> r.heap]
                       : d \in st.seg_of_pieces}
            IN Results(MergeIn(st.heap, ProgramRoot, r.code).heap)
        Matched(r) ==
            Merged(r, PushLoop([heap |-> r.heap, seg_to_pieces |-> w.seg_to_pieces,
                                seg_of_pieces |-> {w.seg_of_pieces}], r.match, segments, 1))
    IN Matched(TryToMatch(h, w.segments, w.order, text))

(***************************************************************************)
(* SpecPush: a workspace over the source units receives generated texts    *)
(* for batches of units.                                                   *)
(***************************************************************************)
MaxPushes == 2          \* calls of push in one run

\* the CPieces of the units of a workspace
PushSegmentTexts == { <<C_ab>>, <<C_aB, C_x>>, <<C_S, C_t_a>> }

R_fn_ab2 == MkDesc("fn", <<"a", "b">>, 2, <<>>, <<>>)

PushPool == {R_fn_ab, R_fn_ab2, R_impl_T, R_struct_S}

\* a workspace of three units: the struct S, the variable x and the typedef of
\* a struct as S.  A struct S { x } of a text matches the first and the third
\* unit and its field x the second one
ThreeUnits == << <<C_S>>, <<C_x>>, <<C_typedef_S>> >>

\* the units of the workspace
WsUnits == DOMAIN ws.segments

InitPush ==
    /\ heap = << MkPiece("code", <<>>, 0, <<>>) >>
    /\ spent = {}
    /\ last = [op |-> "none"]
    /\ mres = Idle
    /\ \E w \in {[segments |-> segments, order |-> order] :
                    segments \in [Units -> PushSegmentTexts], order \in Perms(Units)}
               \cup {[segments |-> ThreeUnits, order |-> order] :
                        order \in Perms(DOMAIN ThreeUnits)} :
          ws = [segments |-> w.segments, order |-> w.order,
                seg_to_pieces |-> [u \in DOMAIN w.segments |-> <<>>],
                seg_of_pieces |-> <<>>, pushes |-> 0]
    /\ nc = Idle /\ ec = Idle /\ rp = Idle

\* workspace.push(batch, text)
Push(batch, text) ==
    /\ ws.pushes < MaxPushes
    /\ \E r \in WorkspacePush(heap, ws, batch, text) :
          /\ heap' = r.heap
          /\ ws' = [ws EXCEPT !.seg_to_pieces = r.seg_to_pieces,
                               !.seg_of_pieces = r.seg_of_pieces,
                               !.pushes = @ + 1]
          /\ last' = [op |-> "push",
                      segments |-> IF batch.none THEN WsUnits ELSE batch.units,
                      match |-> r.match, code |-> r.code, pre |-> r.parsed,
                      recorded |-> ws.seg_to_pieces]
    /\ UNCHANGED <<spent, mres, nc, ec, rp>>

NextPush ==
    \E batch \in {[none |-> TRUE]} \cup {[none |-> FALSE, units |-> S] : S \in SUBSET WsUnits},
       text \in Texts(PushPool, MaxTextItems) :
        Push(batch, text)

SpecPush == InitPush /\ [][NextPush]_vars

(***************************************************************************)
(* Claims about push (SpecPush).                                           *)
(***************************************************************************)
\* the Pieces of the pushed text the matcher attributed to units outside /
\* inside the batch
AttributedOutside ==
    UNION {Range(last.match[i][2]) :
             i \in {k \in DOMAIN last.match : last.match[k][1] \notin last.segments}}

AttributedInside ==
    UNION {Range(last.match[i][2]) :
             i \in {k \in DOMAIN last.match : last.match[k][1] \in last.segments}}

InProgram(p) == p \in Descendants(heap, ProgramRoot)

\* the suppression of the Pieces attributed outside the batch detached p: p is
\* itself attributed to a unit outside the batch, or it lost all its children
\* to the suppression, or its container was detached for one of these reasons
Emptied(c) ==
    /\ IsExtendable(last.pre[c].kind)
    /\ last.pre[c].items # <<>>
    /\ Range(last.pre[c].items) \subseteq AttributedOutside

Suppressed(p) ==
    \/ p \in AttributedOutside
    \/ Emptied(p)
    \/ /\ last.pre[p].parent # last.code
       /\ last.pre[p].parent \in AttributedOutside \/ Emptied(last.pre[p].parent)

\* the first two parts of C8: no Piece attributed to a unit outside the batch
\* is in the program, and the records of the units outside the batch are as
\* they were before the call
OutsideSuppressed ==
    /\ \A p \in AttributedOutside : ~InProgram(p)
    /\ \A u \in WsUnits \ last.segments : ws.seg_to_pieces[u] = last.recorded[u]

\* C8 as stated: after push(batch, text), Pieces attributed to units outside
\* the batch are not merged and the records of those units are unchanged, and
\* the Pieces attributed to units in the batch are merged and recorded.
C8_BatchMergedOutsideSuppressed ==
    last.op = "push" =>
        /\ OutsideSuppressed
        /\ \A i \in DOMAIN last.match :
              last.match[i][1] \in last.segments =>
                 /\ ws.seg_to_pieces[last.match[i][1]] = last.match[i][2]
                 /\ \A p \in Range(last.match[i][2]) : InProgram(p)

\* C8 amended: as C8, but a Piece attributed to a unit in the batch is merged
\* exactly when the suppression did not detach it.
C8_BatchMergedUnlessSuppressed ==
    last.op = "push" =>
        /\ OutsideSuppressed
        /\ \A i \in DOMAIN last.match :
              last.match[i][1] \in last.segments =>
                 /\ ws.seg_to_pieces[last.match[i][1]] = last.match[i][2]
                 /\ \A p \in Range(last.match[i][2]) : InProgram(p) <=> ~Suppressed(p)

\* a push into a program that already holds Pieces, in which one Piece was
\* suppressed, one Piece of the batch was merged, and a unit outside the batch
\* keeps a record made by an earlier push
C8_Witness ==
    /\ last.op = "push"
    /\ ws.pushes = 2
    /\ AttributedOutside # {}
    /\ \E p \in AttributedInside : InProgram(p)
    /\ \E u \in WsUnits \ last.segments : ws.seg_to_pieces[u] # <<>>

(***************************************************************************)
(* Source units and their dependency graph.  A CodeSegment has the set     *)
(* `use` of the units it depends on and the set `used` of the units that   *)
(* depend on it; a graph is the function unit -> use.                      *)
(***************************************************************************)
GraphUnits == 3         \* source units of a scheduled project
MaxTokens == 3          \* largest token budget (max_source_tokens) tried

Segments == 1..GraphUnits

\* CodeSegment.used: the units that use s
UsedBy(use, s) == {u \in DOMAIN use : s \in use[u]}

\* tokenizer.token_num(s.text): every unit is one token long
TokenNum(u) == 1

\* sum(token_num(s.text) for s in segments)
SccTokenNum(segments) == SumOver([u \in segments |-> TokenNum(u)], segments)

RECURSIVE ReachFrom(_, _)
\* the units reachable from the units of S along use edges
ReachFrom(use, S) ==
    LET n == S \cup UNION {use[x] : x \in S}
    IN IF n = S THEN S ELSE ReachFrom(use, n)

\* the strongly connected component of u (nx.strongly_connected_components)
SccOf(use, u) == {v \in ReachFrom(use, {u}) : u \in ReachFrom(use, {v})}

Sccs(use) == {SccOf(use, u) : u \in DOMAIN use}

(***************************************************************************)
(* NodeCentricEngine._translate_order (core/node_centric_engine.py).       *)
(***************************************************************************)
\* scc_indegree[scc]: the use edges that leave the component
SccIndegree(use, scc) ==
    SumOver([u \in scc |-> Cardinality({v \in use[u] : SccOf(use, v) # scc})], scc)

RECURSIVE DecrementAll(_, _, _)
\* the inner loop of find_new_leaves for one finished unit; st = [indegree, new_leaves]
DecrementAll(st, use, useds) ==
    IF useds = <<>> THEN st
    ELSE LET scc == SccOf(use, Head(useds))
             n == st.indegree[scc] - 1
         IN DecrementAll([indegree |-> [st.indegree EXCEPT ![scc] = n],
                          new_leaves |-> IF n = 0 THEN st.new_leaves \cup {scc}
                                         ELSE st.new_leaves],
                         use, Tail(useds))

RECURSIVE FindNewLeavesEager(_, _, _)
\* find_new_leaves without the test indegree[scc] == 0
FindNewLeavesEager(st, use, finished) ==
    IF finished = <<>> THEN st
    ELSE LET useds == SeqOfSet(UsedBy(use, Head(finished)))
             d == DecrementAll(st, use, useds)
         IN FindNewLeavesEager(
               [d EXCEPT !.new_leaves = @ \cup {SccOf(use, u) : u \in Range(useds)}],
               use, Tail(finished))

RECURSIVE FindNewLeaves(_, _, _)
\* find_new_leaves; st = [indegree, new_leaves].  The result does not depend
\* on the order in which the units are visited.
FindNewLeaves(st, use, finished) ==
    IF finished = <<>> THEN st
    ELSE FindNewLeaves(DecrementAll(st, use, SeqOfSet(UsedBy(use, Head(finished)))),
                       use, Tail(finished))

RECURSIVE Absorb(_, _, _, _)
\* the inner loop of _translate_order: pick_scc returns a leaf that fits the
\* rest of the budget (the first one in the iteration order of the set); the
\* results are the possible pairs [to_trans, leaves]
Absorb(leaves, to_trans, tokens_sum, limit) ==
    LET fitting == {scc \in leaves : SccTokenNum(scc) < limit - tokens_sum}
    IN IF fitting = {} THEN {[to_trans |-> to_trans, leaves |-> leaves]}
       ELSE UNION {Absorb(leaves \ {picked}, to_trans \cup picked,
                          tokens_sum + SccTokenNum(picked), limit) : picked \in fitting}

\* leaves.pop() followed by the inner loop
NextBatches(leaves, limit) ==
    UNION {Absorb(leaves \ {anchor}, anchor, 0, limit) : anchor \in leaves}

(***************************************************************************)
(* SpecNode: trans_project drives _translate_order; every yielded batch    *)
(* becomes a task running _transpile_segments.  The tasks run only while   *)
(* the main coroutine is suspended: in asyncio.sleep of the scheduling     *)
(* loop, or in asyncio.wait after the loop.  _translate_finished is a list *)
(* whose order does not matter; it is kept as a set.                       *)
(***************************************************************************)
Graphs == [Segments -> SUBSET Segments]

InitNode ==
    /\ heap = <<>> /\ spent = {} /\ last = Idle /\ mres = Idle /\ ws = Idle
    /\ \E use \in Graphs, limit \in 1..MaxTokens :
          nc = [use |-> use, max_source_tokens |-> limit, pc |-> "loop",
                scc_indegree |-> [scc \in Sccs(use) |-> SccIndegree(use, scc)],
                leaves |-> {scc \in Sccs(use) : SccIndegree(use, scc) = 0},
                translating |-> {}, translate_finished |-> {},
                tasks |-> {}, yielded |-> {}, reported |-> {}]
    /\ ec = Idle /\ rp = Idle

othersOfNode == <<heap, spent, last, mres, ws, ec, rp>>

\* the loop ends although batches are translating
LeavesLeft(leaves, translating) == leaves # {}

\* the condition of the loop: `while leaves or translating`
LoopGoesOn(leaves, translating) == leaves # {} \/ translating # {}

\* the head of the loop body: new leaves are collected from the finished
\* units, which leave `translating`, and the list of finished units is reset
Refreshed ==
    LET r == FindNewLeaves([indegree |-> nc.scc_indegree, new_leaves |-> {}],
                           nc.use, SeqOfSet(nc.translate_finished))
    IN [nc EXCEPT !.scc_indegree = r.indegree,
                  !.leaves = @ \cup r.new_leaves,
                  !.translating = @ \ nc.translate_finished,
                  !.translate_finished = {}]

\* one iteration of the loop that finds no leaf and goes to sleep
NodeIdle ==
    /\ nc.pc = "loop"
    /\ LoopGoesOn(nc.leaves, nc.translating)
    /\ Refreshed.leaves = {}
    /\ nc' = [Refreshed EXCEPT !.pc = "sleeping"]
    /\ UNCHANGED othersOfNode

\* the sleep is over
NodeWake ==
    /\ nc.pc = "sleeping"
    /\ nc' = [nc EXCEPT !.pc = "loop"]
    /\ UNCHANGED othersOfNode

\* one iteration of the loop that yields a batch, for which trans_project
\* creates a task
NodeYield ==
    /\ nc.pc = "loop"
    /\ LoopGoesOn(nc.leaves, nc.translating)
    /\ \E b \in NextBatches(Refreshed.leaves, nc.max_source_tokens) :
          nc' = [Refreshed EXCEPT !.leaves = b.leaves,
                                  !.translating = @ \cup b.to_trans,
                                  !.tasks = @ \cup {b.to_trans},
                                  !.yielded = @ \cup b.to_trans]
    /\ UNCHANGED othersOfNode

\* the loop ends: no leaf and nothing translating
NodeExit ==
    /\ nc.pc = "loop"
    /\ ~LoopGoesOn(nc.leaves, nc.translating)
    /\ nc' = [nc EXCEPT !.pc = "waiting"]
    /\ UNCHANGED othersOfNode

\* a task reaches the end of _transpile_segments: its units are reported
NodeTaskFinish(batch) ==
    /\ nc.pc \in {"sleeping", "waiting"}
    /\ batch \in nc.tasks
    /\ nc' = [nc EXCEPT !.translate_finished = @ \cup batch,
                        !.tasks = @ \ {batch},
                        !.reported = @ \cup batch]
    /\ UNCHANGED othersOfNode

\* asyncio.wait(tasks) returns
NodeReturn ==
    /\ nc.pc = "waiting" /\ nc.tasks = {}
    /\ nc' = [nc EXCEPT !.pc = "done"]
    /\ UNCHANGED othersOfNode

NextNode ==
    \/ NodeIdle
    \/ NodeWake
    \/ NodeYield
    \/ NodeExit
    \/ \E batch \in SUBSET Segments : NodeTaskFinish(batch)
    \/ NodeReturn

SpecNode == InitNode /\ [][NextNode]_vars

(***************************************************************************)
(* Claims about the node-centric scheduler (SpecNode).                     *)
(***************************************************************************)
\* C3: a unit is yielded only after every unit it uses in another cluster
\* was reported as finished.
C3_NoForwardReference ==
    \A u1 \in nc.yielded : \A u2 \in nc.use[u1] :
        SccOf(nc.use, u1) # SccOf(nc.use, u2) => u2 \in nc.reported

\* a unit of a cycle that uses another cluster through two edges was yielded
C3_Witness ==
    \E u1 \in nc.yielded :
        /\ Cardinality(SccOf(nc.use, u1)) > 1
        /\ nc.scc_indegree[SccOf(nc.use, u1)] <= 0
        /\ SccIndegree(nc.use, SccOf(nc.use, u1)) > 1

\* C24: no unit is yielded twice; the scheduler ends only when every unit
\* was yielded and has finished; an iteration that finds a batch translating
\* and no cluster ready goes to sleep instead of ending; and once every task
\* has completed, the scheduler has finished units to collect, a cluster to
\* yield, or nothing left to yield.
C24_EveryUnitOnce ==
    /\ [](/\ nc.pc \in {"waiting", "done"} =>
                (nc.yielded = Segments /\ nc.translating = {}
                   /\ nc.reported \cup UNION nc.tasks = Segments)
          /\ nc.pc = "done" => nc.reported = Segments
          /\ \A b1, b2 \in nc.tasks : b1 # b2 => b1 \cap b2 = {}
          /\ (nc.pc \in {"loop", "sleeping"} /\ nc.tasks = {}) =>
                \/ nc.translate_finished # {}
                \/ nc.leaves # {}
                \/ nc.yielded = Segments)
    /\ [][/\ \A b \in nc'.tasks \ nc.tasks : b \cap nc.yielded = {}
          /\ (nc.pc = "loop" /\ nc.translating # {} /\ Refreshed.leaves = {})
                => nc'.pc = "sleeping"]_vars

\* the scheduler sleeps while a batch is translating and no cluster is ready
C24_Witness ==
    /\ nc.pc = "sleeping" /\ nc.translating # {} /\ nc.leaves = {}
    /\ nc.yielded # Segments

\* the clusters a batch is made of
ClustersOf(batch) == {SccOf(nc.use, u) : u \in batch}

\* C21: a yielded batch of more than one cluster has a token size, the anchor
\* cluster included, under max_source_tokens.
C21_BatchUnderBudget ==
    \A batch \in nc.tasks :
        Cardinality(ClustersOf(batch)) > 1 => SccTokenNum(batch) < nc.max_source_tokens

(***************************************************************************)
(* EdgeCentricEngine: the synthesis phase (core/edge_centric_engine.py).   *)
(* A Relation is a pair <<s1, s2>> of units.  The engine state e is        *)
(*   [use, max_retry, max_source_tokens, relations, relation_try_count,    *)
(*    in_synthesis, segment_timestamp, ...].                               *)
(***************************************************************************)
MaxRetryBound == 2      \* largest max_retry tried

\* the Relations of the use edges alone
UseRelations(use) == {r \in (DOMAIN use) \X (DOMAIN use) : r[2] \in use[r[1]]}

\* the Relations _synthesize_rust starts with
InitialRelations(use) ==
    {r \in (DOMAIN use) \X (DOMAIN use) : r[2] \in use[r[1]]}
    \cup {<<s, s>> : s \in {u \in DOMAIN use : use[u] = {} /\ UsedBy(use, u) = {}}}

\* _add_relation with the test `>` in place of `>=`
AddRelationOffByOne(e, r) ==
    [e EXCEPT !.relations =
        @ \cup {p \in r : ~(e.relation_try_count[p] > e.max_retry)}]

\* _add_relation
AddRelation(e, r) ==
    [e EXCEPT !.relations =
        @ \cup {p \in r : ~(e.relation_try_count[p] >= e.max_retry)}]

\* _remove_relation
RemoveRelation(e, r) ==
    [e EXCEPT !.relations = @ \ r,
              !.relation_try_count =
                  [p \in DOMAIN @ |-> IF p \in r \cap e.relations THEN @[p] + 1 ELSE @[p]]]

\* _get_surrounding without the filter on the units in synthesis
GetSurroundingAll(e, s) == e.use[s] \cup UsedBy(e.use, s)

\* _get_surrounding
GetSurrounding(e, s) == {u \in e.use[s] \cup UsedBy(e.use, s) : u \notin e.in_synthesis}

\* _calc_token_num
CalcTokenNum(segments) == SccTokenNum(segments)

\* _pick_randomly: the Relations it may return
PickRandomly(e, exclude) ==
    {r \in e.relations : r[1] \notin exclude /\ r[2] \notin exclude}

\* the vote of one candidate in _vote_of_candidates
Vote(e, chosen, c) ==
    Cardinality({u \in e.use[c] : u \in chosen /\ <<c, u>> \in e.relations})
    + Cardinality({u \in UsedBy(e.use, c) : u \in chosen /\ <<u, c>> \in e.relations})

\* _vote_of_candidates: the candidates with a vote other than zero
VoteOfCandidates(e, chosen, candidates) == {c \in candidates : Vote(e, chosen, c) # 0}

RECURSIVE Grow(_, _, _, _)
\* the loop of _choose_to_trans over the candidates; max() returns one of the
\* candidates that are best.  The result is the set of the possible batches.
Grow(e, chosen, candidates, out_sizes) ==
    IF candidates = {} THEN {chosen}
    ELSE LET voted == VoteOfCandidates(e, chosen, candidates)
             best == IF voted # {}
                     THEN {c \in voted : \A d \in voted :
                              Vote(e, chosen, d) <= Vote(e, chosen, c)}
                     ELSE {c \in candidates : \A d \in candidates :
                              e.segment_timestamp[d] <= e.segment_timestamp[c]}
         IN UNION {
              IF CalcTokenNum({new_chosen} \cup chosen) > e.max_source_tokens
              THEN Grow(e, chosen, candidates \ {new_chosen}, out_sizes \cup {new_chosen})
              ELSE Grow(e, chosen \cup {new_chosen},
                        (candidates \ {new_chosen})
                           \cup ((GetSurrounding(e, new_chosen) \ (chosen \cup {new_chosen}))
                                    \ out_sizes),
                        out_sizes)
              : new_chosen \in best}

\* _choose_to_trans once a Relation was picked
ChooseToTrans(e, picked) ==
    Grow(e, {picked[1], picked[2]},
         GetSurrounding(e, picked[1]) \cup GetSurrounding(e, picked[2]), {})

\* the body of the loop of _synthesize_rust for the yielded batch
Claim(e, segments) ==
    LET to_remove == {r \in e.relations : r[1] \in segments /\ r[2] \in segments}
    IN [RemoveRelation(e, to_remove) EXCEPT !.in_synthesis = @ \cup segments,
                                             !.tasks = Append(@, segments)]

\* the Relations a finished task asks to add: changed is the set of matched
\* units whose interface differs from the recorded one
ToAdd(e, segments, changed) ==
    {r \in (DOMAIN e.use) \X (DOMAIN e.use) :
        /\ r[2] \in changed
        /\ r[1] \in UsedBy(e.use, r[2])
        /\ (r[2] \in segments) # (r[1] \in segments)}

\* the end of a task that leaves its batch in the synthesis set
CompleteInSynthesis(e, i, changed) ==
    [AddRelation(e, ToAdd(e, e.tasks[i], changed)) EXCEPT
        !.tasks = SubSeq(@, 1, i - 1) \o SubSeq(@, i + 1, Len(@))]

\* the end of a task of _synthesize_rust, from try_to_match on: new Relations
\* are added, the batch leaves the synthesis set and gets the current time
Complete(e, i, changed) ==
    LET segments == e.tasks[i]
        e1 == AddRelation(e, ToAdd(e, segments, changed))
    IN [e1 EXCEPT !.in_synthesis = @ \ segments,
                  !.clock = @ + 1,
                  !.segment_timestamp =
                      [u \in DOMAIN @ |-> IF u \in segments THEN e.clock + 1 ELSE @[u]],
                  !.tasks = SubSeq(@, 1, i - 1) \o SubSeq(@, i + 1, Len(@))]

(***************************************************************************)
(* SpecEdge: _synthesize_rust drives _translate_order; every yielded batch *)
(* becomes a task.  The tasks run only while the main coroutine is         *)
(* suspended: in asyncio.sleep of _choose_to_trans, or in asyncio.wait     *)
(* after the loop.  The generated text, the matcher and the workspace are  *)
(* represented by the set of units a task finds changed.                   *)
(***************************************************************************)
\* the graphs up to a renaming of the units: the units are numbered by
\* decreasing number of dependencies
EdgeGraphs ==
    {use \in Graphs : \A u \in Segments \ {GraphUnits} :
                         Cardinality(use[u]) >= Cardinality(use[u + 1])}

InitEdge ==
    /\ heap = <<>> /\ spent = {} /\ mres = Idle /\ ws = Idle /\ nc = Idle
    /\ last = [op |-> "none"]
    /\ \E use \in EdgeGraphs, limit \in 1..MaxTokens, max_retry \in 0..MaxRetryBound :
          ec = [use |-> use, max_source_tokens |-> limit, max_retry |-> max_retry,
                pc |-> "loop",
                relations |-> InitialRelations(use),
                relation_try_count |-> [r \in Segments \X Segments |-> 0],
                in_synthesis |-> {},
                segment_timestamp |-> [u \in Segments |-> 0],
                clock |-> 0,
                tasks |-> <<>>]
    /\ rp = Idle

othersOfEdge == <<heap, spent, mres, ws, nc, rp>>

\* _choose_to_trans picks a Relation and grows the batch; the loop of
\* _synthesize_rust claims the Relations inside the batch and creates the task
EdgeChoose ==
    /\ ec.pc = "loop"
    /\ ec.relations # {}
    /\ \E picked \in PickRandomly(ec, ec.in_synthesis) :
          \E segments \in ChooseToTrans(ec, picked) :
             /\ ec' = Claim(ec, segments)
             /\ last' = [op |-> "choose", picked |-> picked, segments |-> segments,
                         in_synthesis |-> ec.in_synthesis]
    /\ UNCHANGED othersOfEdge

\* _choose_to_trans finds no Relation to pick and sleeps
EdgeSleep ==
    /\ ec.pc = "loop"
    /\ ec.relations # {}
    /\ PickRandomly(ec, ec.in_synthesis) = {}
    /\ ec' = [ec EXCEPT !.pc = "sleeping"]
    /\ UNCHANGED <<last, othersOfEdge>>

\* the sleep is over
EdgeWake ==
    /\ ec.pc = "sleeping"
    /\ ec' = [ec EXCEPT !.pc = "loop"]
    /\ UNCHANGED <<last, othersOfEdge>>

\* _translate_order ends: no Relation is pending
EdgeExit ==
    /\ ec.pc = "loop"
    /\ ec.relations = {}
    /\ ec' = [ec EXCEPT !.pc = "waiting"]
    /\ UNCHANGED <<last, othersOfEdge>>

\* a task runs to its end
EdgeTaskFinish(i, changed) ==
    /\ ec.pc \in {"sleeping", "waiting"}
    /\ i \in DOMAIN ec.tasks
    /\ ec' = Complete(ec, i, changed)
    /\ last' = [op |-> "finish", segments |-> ec.tasks[i],
                to_add |-> ToAdd(ec, ec.tasks[i], changed)]
    /\ UNCHANGED othersOfEdge

\* asyncio.wait(tasks) returns, and with it _synthesize_rust
EdgeReturn ==
    /\ ec.pc = "waiting" /\ ec.tasks = <<>>
    /\ ec' = [ec EXCEPT !.pc = "done"]
    /\ UNCHANGED <<last, othersOfEdge>>

NextEdge ==
    \/ EdgeChoose
    \/ EdgeSleep
    \/ EdgeWake
    \/ EdgeExit
    \/ \E i \in DOMAIN ec.tasks, changed \in SUBSET Segments : EdgeTaskFinish(i, changed)
    \/ EdgeReturn

SpecEdge == InitEdge /\ [][NextEdge]_vars

(***************************************************************************)
(* Claims about the edge-centric synthesis phase (SpecEdge).               *)
(***************************************************************************)
\* C4: the retry counter of a Relation counts the batches that claimed it.  A
\* Relation that was claimed and whose counter has reached max_retry is not
\* pending, so no later batch claims it, and no Relation is claimed by more
\* than max(1, max_retry) batches.
C4_RetryBound ==
    \A r \in Segments \X Segments :
        /\ ec.relation_try_count[r] <= (IF ec.max_retry > 1 THEN ec.max_retry ELSE 1)
        /\ (r \in ec.relations /\ ec.relation_try_count[r] > 0)
              => ec.relation_try_count[r] < ec.max_retry

\* a task has just asked to add a Relation that was claimed max_retry >= 2
\* times, and the Relation was dropped
C4_Witness ==
    /\ last.op = "finish"
    /\ ec.max_retry >= 2
    /\ \E r \in last.to_add :
          ec.relation_try_count[r] = ec.max_retry /\ r \notin ec.relations

\* C5: when _synthesize_rust returns, no Relation is pending and no unit is
\* in synthesis.
C5_TerminalEmpty ==
    ec.pc = "done" => ec.relations = {} /\ ec.in_synthesis = {}

\* C6: the batches of the tasks in flight are pairwise disjoint, and a batch
\* has no unit that was in synthesis when it was chosen.
C6_DisjointBatches ==
    /\ \A i, j \in DOMAIN ec.tasks : i # j => ec.tasks[i] \cap ec.tasks[j] = {}
    /\ last.op = "choose" => last.segments \cap last.in_synthesis = {}

\* a batch was chosen while another task was in flight, and a unit of the
\* batch depends on or is used by a unit of that task
C6_Witness ==
    /\ last.op = "choose"
    /\ Len(ec.tasks) > 1
    /\ \E s \in last.segments :
          (ec.use[s] \cup UsedBy(ec.use, s)) \cap last.in_synthesis # {}

(***************************************************************************)
(* SpecChoose: one call of EdgeCentricEngine._choose_to_trans at the start *)
(* of the synthesis, step by step through its loop.  The units have token  *)
(* numbers of their own; the token number of a batch is their sum.         *)
(***************************************************************************)
ChooseUnits == 4        \* source units of the project
MaxUnitTokens == 2      \* largest token number of a unit

\* the projects: no unit uses a unit before it
ChooseGraphs ==
    {use \in [1..ChooseUnits -> SUBSET (1..ChooseUnits)] :
        \A u \in 1..ChooseUnits : \A v \in use[u] : v > u}

\* _calc_token_num with the token numbers of the units
UnitsTokenNum(e, segments) == SumOver([u \in segments |-> e.token_num[u]], segments)

\* the candidates of the most recent completion time, whatever their votes
MostRecentCandidates(e, chosen, candidates) ==
    {c \in candidates : \A d \in candidates :
        e.segment_timestamp[d] <= e.segment_timestamp[c]}

\* the candidate max() may return in the loop of _choose_to_trans
BestCandidates(e, chosen, candidates) ==
    LET voted == VoteOfCandidates(e, chosen, candidates)
    IN IF voted # {}
       THEN {c \in voted : \A d \in voted : Vote(e, chosen, d) <= Vote(e, chosen, c)}
       ELSE {c \in candidates : \A d \in candidates :
                e.segment_timestamp[d] <= e.segment_timestamp[c]}

\* no record of the rejected candidates
KeepOutSizes(out_sizes, new_chosen) == out_sizes

\* out_sizes.add(new_chosen)
AddOutSize(out_sizes, new_chosen) == out_sizes \cup {new_chosen}

InitChoose ==
    /\ heap = <<>> /\ spent = {} /\ mres = Idle /\ ws = Idle /\ nc = Idle /\ rp = Idle
    /\ last = [op |-> "none"]
    /\ \E use \in ChooseGraphs, limit \in 1..MaxTokens,
          token_num \in [1..ChooseUnits -> 1..MaxUnitTokens] :
          ec = [use |-> use, max_source_tokens |-> limit, token_num |-> token_num,
                relations |-> InitialRelations(use),
                in_synthesis |-> {},
                segment_timestamp |-> [u \in 1..ChooseUnits |-> 0],
                pc |-> "pick", picked |-> <<>>,
                chosen |-> {}, candidates |-> {}, out_sizes |-> {}]

othersOfChoose == <<heap, spent, mres, ws, nc, rp>>

\* _pick_randomly returns a Relation: its units are chosen and their
\* surroundings are the candidates
ChoosePick(picked) ==
    /\ ec.pc = "pick"
    /\ picked \in PickRandomly(ec, ec.in_synthesis)
    /\ ec' = [ec EXCEPT !.pc = "grow", !.picked = picked,
                        !.chosen = {picked[1], picked[2]},
                        !.candidates = GetSurrounding(ec, picked[1])
                                          \cup GetSurrounding(ec, picked[2])]
    /\ last' = [op |-> "pick"]
    /\ UNCHANGED othersOfChoose

\* one pass of the loop: the best candidate is rejected for its size or joins
\* the batch with its surroundings as new candidates
ChooseConsider(new_chosen) ==
    /\ ec.pc = "grow"
    /\ ec.candidates # {}
    /\ new_chosen \in BestCandidates(ec, ec.chosen, ec.candidates)
    /\ ec' = IF UnitsTokenNum(ec, {new_chosen} \cup ec.chosen) > ec.max_source_tokens
             THEN [ec EXCEPT !.candidates = @ \ {new_chosen},
                             !.out_sizes = AddOutSize(@, new_chosen)]
             ELSE [ec EXCEPT !.chosen = @ \cup {new_chosen},
                             !.candidates =
                                 (@ \ {new_chosen})
                                    \cup ((GetSurrounding(ec, new_chosen)
                                             \ (ec.chosen \cup {new_chosen}))
                                            \ ec.out_sizes)]
    /\ last' = [op |-> "consider", new_chosen |-> new_chosen,
                rejected |-> UnitsTokenNum(ec, {new_chosen} \cup ec.chosen)
                                > ec.max_source_tokens]
    /\ UNCHANGED othersOfChoose

\* no candidate is left: chosen is returned
ChooseReturn ==
    /\ ec.pc = "grow"
    /\ ec.candidates = {}
    /\ ec' = [ec EXCEPT !.pc = "returned"]
    /\ UNCHANGED <<last, othersOfChoose>>

NextChoose ==
    \/ \E picked \in (1..ChooseUnits) \X (1..ChooseUnits) : ChoosePick(picked)
    \/ \E new_chosen \in 1..ChooseUnits : ChooseConsider(new_chosen)
    \/ ChooseReturn

SpecChoose == InitChoose /\ [][NextChoose]_vars

(***************************************************************************)
(* Claims about the choice of a batch (SpecChoose).                        *)
(***************************************************************************)
\* the units of the Relation the batch grew from
SeedPair == IF ec.picked = <<>> THEN {} ELSE {ec.picked[1], ec.picked[2]}

\* C22 as stated: the returned batch is within max_source_tokens or is the
\* seed pair alone; a candidate that was rejected for its size is not in the
\* batch, no rejected candidate is a candidate again, and a rejected
\* candidate stays rejected while the batch grows.
C22_RejectedNeverInBatch ==
    /\ [](/\ ec.pc = "returned" =>
                \/ UnitsTokenNum(ec, ec.chosen) <= ec.max_source_tokens
                \/ ec.chosen = SeedPair
          /\ ec.out_sizes \cap ec.chosen = {}
          /\ ec.out_sizes \cap ec.candidates = {}
          /\ (last.op = "consider" /\ last.rejected) => last.new_chosen \in ec.out_sizes)
    /\ [][ec.pc = "grow" => ec.out_sizes \subseteq ec'.out_sizes]_vars

\* C22 amended: as C22, except that the two seed units, which are candidates
\* themselves, are rejected and yet in the batch when the seed pair alone
\* exceeds max_source_tokens; the batch is the seed pair alone then.
C22_BatchWithinBudget ==
    /\ [](/\ ec.pc = "returned" =>
                \/ UnitsTokenNum(ec, ec.chosen) <= ec.max_source_tokens
                \/ ec.chosen = SeedPair
          /\ (ec.out_sizes \ SeedPair) \cap ec.chosen = {}
          /\ ec.out_sizes \cap SeedPair # {} =>
                /\ UnitsTokenNum(ec, SeedPair) > ec.max_source_tokens
                /\ ec.chosen = SeedPair
          /\ ec.out_sizes \cap ec.candidates = {}
          /\ (last.op = "consider" /\ last.rejected) => last.new_chosen \in ec.out_sizes)
    /\ [][ec.pc = "grow" => ec.out_sizes \subseteq ec'.out_sizes]_vars

\* a batch larger than the seed pair was returned, and a neighbour of one of
\* the units that joined it had been rejected before
C22_Witness ==
    /\ ec.pc = "returned"
    /\ \E c \in ec.out_sizes \ SeedPair, d \in ec.chosen \ SeedPair :
          c \in GetSurrounding(ec, d) /\ c \notin GetSurrounding(ec, ec.picked[1])
                                      /\ c \notin GetSurrounding(ec, ec.picked[2])

(***************************************************************************)
(* Diagnostic localisation and the edge-centric repair round.  A           *)
(* RustPieceRef is the sequence of the names that lead from the program    *)
(* root to the Piece.  A fragment of walk() is [ref, text].                *)
(***************************************************************************)
RECURSIVE Walk(_, _, _), WalkItems(_, _, _, _)
\* RustSplittable.walk
Walk(h, p, ref_as) ==
    << [ref |-> ref_as, text |-> Header(h, p)] >>
    \o WalkItems(h, p, ref_as, 1)
    \o << [ref |-> ref_as, text |-> Tail_(h, p)] >>

\* the loop of walk from the i-th item on
WalkItems(h, p, ref_as, i) ==
    LET items == Items(h, p)
    IN IF i > Len(items) THEN <<>>
       ELSE LET item == items[i]
                ref == Append(ref_as, h[item].name)
            IN (IF IsSplittable(h[item].kind) THEN Walk(h, item, ref)
                ELSE << [ref |-> ref, text |-> Text(h, item)] >>)
               \o (IF i < Len(items) THEN << [ref |-> ref_as, text |-> Sep(h, p)] >> ELSE <<>>)
               \o WalkItems(h, p, ref_as, i + 1)

RECURSIVE RangesLoop(_, _, _)
\* the loop of piece_ref_ranges over the fragments of walk()
RangesLoop(frags, start_line, ranges) ==
    IF frags = <<>> THEN ranges
    ELSE LET f == Head(frags)
             end_line == start_line + CountNL(f.text)
         IN RangesLoop(Tail(frags), end_line,
                       IF Marked(f.text) THEN Append(ranges, <<f.ref, start_line, end_line>>)
                       ELSE ranges)

\* RustCode.piece_ref_ranges
PieceRefRanges(h, root) == RangesLoop(Walk(h, root, <<>>), 1, <<>>)

RECURSIVE SpanPieces(_, _, _)
\* the inner loop of pieces_of_conflict for one span, from the k-th range on
SpanPieces(span, ranges, k) ==
    IF k > Len(ranges) THEN {}
    ELSE LET r == ranges[k]
             hit == IF r[2] <= span.line_start /\ span.line_start <= span.line_end
                       /\ span.line_end <= r[3]
                    THEN {r[1]} ELSE {}
         IN IF span.line_end < r[2] THEN hit
            ELSE hit \cup SpanPieces(span, ranges, k + 1)

LibFile == "src/lib.rs"

\* pieces_of_conflict without the test of the file name
PiecesOfConflictAnyFile(message, ranges) ==
    UNION {SpanPieces(message[i], ranges, 1) : i \in DOMAIN message}

\* pieces_of_conflict; a message is the list message.all_spans
PiecesOfConflict(message, ranges) ==
    UNION {IF message[i].file_name # LibFile THEN {} ELSE SpanPieces(message[i], ranges, 1)
           : i \in DOMAIN message}

\* pieces_of_conflicts: the items <<message, pieces>> of the dict it returns
PiecesOfConflicts(messages, ranges) ==
    SelectSeq([i \in DOMAIN messages |->
                  <<messages[i], PiecesOfConflict(messages[i], ranges)>>],
              LAMBDA e : e[2] # {})

\* EdgeCentricEngine._get_conflicts
GetConflicts(h, messages) == PiecesOfConflicts(messages, PieceRefRanges(h, ProgramRoot))

RECURSIVE Resolve(_, _, _)
\* RustPieceRef.resolve from the Piece p along the names
Resolve(h, p, names) ==
    IF names = <<>> THEN p
    ELSE IF IsExtendable(h[p].kind) /\ GetItem(h, p, Head(names)) # None
         THEN Resolve(h, GetItem(h, p, Head(names)), Tail(names))
         ELSE None

RECURSIVE TrimmedNonEmpty(_, _, _)
\* RustSplittable.trimmed(pieces) of the Piece c is not None
TrimmedNonEmpty(h, c, pieces) ==
    \E i \in DOMAIN Items(h, c) :
        LET item == Items(h, c)[i]
        IN IF \E p \in pieces : PieceEq(h, item, p) THEN TRUE
           ELSE IF IsSplittable(h[item].kind) THEN TrimmedNonEmpty(h, item, pieces)
           ELSE IF IsExtendable(h[item].kind) THEN \E p \in pieces : Contains(h, item, p)
           ELSE FALSE

\* _resolve_pieces_of_conflicts returns "" without a repair call
NothingToRepair(h, pieces) ==
    LET resolved == {Resolve(h, ProgramRoot, r) : r \in pieces} \ {None}
    IN ~TrimmedNonEmpty(h, ProgramRoot, resolved)

RECURSIVE Reverse(_)
Reverse(s) == IF s = <<>> THEN <<>> ELSE Append(Reverse(Tail(s)), Head(s))

RECURSIVE Dedup(_)
\* the keys of a dict in the order of their first insertion
Dedup(s) ==
    IF s = <<>> THEN <<>>
    ELSE <<Head(s)>> \o Dedup(SelectSeq(Tail(s), LAMBDA x : x # Head(s)))

\* a grouping that makes one task of every diagnostic
ConflictsPrefsSingly(conflict2prefs) ==
    Reverse([i \in DOMAIN conflict2prefs |->
                [conflicts |-> <<conflict2prefs[i][1]>>, pieces |-> conflict2prefs[i][2]]])

\* the grouping of _resolve_conflicts_once: the list conflicts_prefs
ConflictsPrefs(conflict2prefs) ==
    LET many == SelectSeq(conflict2prefs, LAMBDA e : Cardinality(e[2]) > 1)
        one == SelectSeq(conflict2prefs, LAMBDA e : Cardinality(e[2]) = 1)
        pref(e) == CHOOSE p \in e[2] : TRUE
        prefs == Dedup([i \in DOMAIN one |-> pref(one[i])])
        of(p) == SelectSeq(one, LAMBDA e : pref(e) = p)
    IN Reverse([i \in DOMAIN many |-> [conflicts |-> <<many[i][1]>>, pieces |-> many[i][2]]]
               \o [i \in DOMAIN prefs |->
                     [conflicts |-> [k \in DOMAIN of(prefs[i]) |-> of(prefs[i])[k][1]],
                      pieces |-> {prefs[i]}]])

(***************************************************************************)
(* SpecRepair: the rounds of _resolve_conflicts, of the edge-centric       *)
(* engine over the program or of the node-centric engine over the result   *)
(* of one batch.  The diagnostics of the toolchain and the texts of the    *)
(* repair generator are inputs.  The tasks of an edge-centric round take   *)
(* their first step in the order of their creation, before any task that   *)
(* sleeps or awaits the generator goes on.  The batch tasks of the         *)
(* node-centric engine run side by side: while one awaits the repair       *)
(* generator another may push its result, which changes the context of     *)
(* the rounds that follow.                                                 *)
(***************************************************************************)
MaxRounds == 2      \* largest max_resolve_round tried
MaxLine == 3        \* the lines the spans of the diagnostics refer to
MaxMessages == 2    \* the diagnostics of a round

R_impl_Tab == MkDesc("impl", ImplName(N_T), 0, N_T,
                     << MkDesc("fn", N_a, 1, <<>>, <<>>), MkDesc("fn", N_b, 1, <<>>, <<>>) >>)
R_impl_Ta2 == MkDesc("impl", ImplName(N_T), 0, N_T, << MkDesc("fn", N_a, 2, <<>>, <<>>) >>)

\* the programs the synthesis phase left, and the texts a repair call returns
ProgramPool == {R_impl_Tab, R_fn_ab}
RepairPool == {R_impl_Ta2, R_fn_ab2}

Spans == {sp \in [file_name : {LibFile}, line_start : 1..MaxLine, line_end : 1..MaxLine] :
             sp.line_start <= sp.line_end}

\* the lists of distinct diagnostics with one span each
Messages == Texts({<<sp>> : sp \in Spans}, MaxMessages)

\* range(n) of a for loop still has the index i
InRangeInclusive(i, n) == i <= n

InRange(i, n) == i < n

\* a loop without the break
NeverBreaks(found_none) == FALSE

\* `if await self._resolve_conflicts_once(i): break` and `if not msgs: break`
Breaks(found_none) == found_none

TOKENS_FOR_CONFLICT == 54000
MaxReportLine == 2  \* the lines the spans of a batch diagnostic end on

\* start_line = 1 + context.count("\n")
StartLineOf(context) == 1 + CountNL(context)

\* workspace.trans_result() at a round of the repair of a batch: the empty
\* workspace, a context of one line and a context of two lines
RepairContexts == {<<>>, <<"x">>, <<"x", NL, "x">>}

\* the token numbers of the rendered diagnostics
MsgTokens == {20000, 40000, 60000}

\* the diagnostics validate reports for a batch behind its context: the
\* rendered text (by its token number, 0 for none) and the last lines of the
\* spans
NodeReports ==
    {m \in [rendered : BOOLEAN, tokens : MsgTokens \cup {0},
            all_spans : {<<>>} \cup {<<[line_end |-> l]>> : l \in 1..MaxReportLine}] :
        m.rendered <=> m.tokens > 0}

\* the filter of NodeCentricEngine._get_conflicts: a diagnostic is skipped
\* when all its spans end before start_line
KeptFrom(start_line, reports) ==
    SelectSeq(reports, LAMBDA msg : ~(\A i \in DOMAIN msg.all_spans :
                                         msg.all_spans[i].line_end < start_line))

\* NodeCentricEngine._get_conflicts: the diagnostics with a span that does not
\* end before start_line
NodeGetConflicts(context, reports) == KeptFrom(StartLineOf(context), reports)

RECURSIVE SelectLoop(_, _, _, _)
SelectLoop(msgs, selected, remain_tokens_num, out) ==
    IF msgs = <<>> THEN (IF selected # <<>> THEN Append(out, selected) ELSE out)
    ELSE IF ~Head(msgs).rendered
         THEN SelectLoop(Tail(msgs), selected, remain_tokens_num, out)
    ELSE IF Head(msgs).tokens > remain_tokens_num
         THEN SelectLoop(Tail(msgs), <<Head(msgs)>>,
                         TOKENS_FOR_CONFLICT - Head(msgs).tokens, Append(out, selected))
    ELSE SelectLoop(Tail(msgs), Append(selected, Head(msgs)),
                    remain_tokens_num - Head(msgs).tokens, out)

\* NodeCentricEngine._select_messages: the lists it yields, in order
SelectMessages(msgs) == SelectLoop(msgs, <<>>, TOKENS_FOR_CONFLICT, <<>>)

RepairOff == [pc |-> "off", round |-> 0, max_resolve_round |-> 0,
              in_resolution |-> {}, tasks |-> <<>>]
\* round is the number of rounds the loop has begun
BatchOff == [pc |-> "off", round |-> 0, max_resolve_round |-> 0,
             msgs |-> <<>>, selected |-> <<>>, context |-> <<>>]

\* the repair phase of the edge-centric engine over the program the synthesis
\* phase pushed, with max_resolve_round = n
InitEdgeRepair(n) ==
    /\ \E text \in Texts(ProgramPool, MaxTextItems) \ {<<>>} :
       \E w \in {[segments |-> [u \in Units |-> <<C_t_a>>],
                  order |-> [u \in Units |-> u],
                  seg_to_pieces |-> [u \in Units |-> <<>>],
                  seg_of_pieces |-> <<>>, pushes |-> 0]} :
       \E r \in WorkspacePush(<< MkPiece("code", <<>>, 0, <<>>) >>, w,
                               [none |-> TRUE], text) :
          /\ heap = r.heap
          /\ ws = [w EXCEPT !.seg_to_pieces = r.seg_to_pieces,
                            !.seg_of_pieces = r.seg_of_pieces]
    /\ rp = [RepairOff EXCEPT !.pc = "idle", !.max_resolve_round = n]
    /\ nc = BatchOff

\* the repair of one batch of the node-centric engine with
\* max_resolve_round = n: result is the tree RustCode.from_text makes of the
\* synthesized text
InitBatchRepair(n) ==
    /\ \E text \in Texts(ProgramPool, MaxTextItems) \ {<<>>} :
          heap = FromText(<<>>, text).heap
    /\ ws = Idle
    /\ rp = RepairOff
    /\ \E context \in RepairContexts :
          nc = [BatchOff EXCEPT !.pc = "loop", !.max_resolve_round = n, !.context = context]

\* either engine with max_resolve_round = n
InitRepairOf(n) ==
    /\ InitEdgeRepair(n) \/ InitBatchRepair(n)
    /\ spent = {}
    /\ last = [op |-> "none"]
    /\ mres = Idle /\ ec = Idle

InitRepair == \E n \in 0..MaxRounds : InitRepairOf(n)

Created == {i \in DOMAIN rp.tasks : rp.tasks[i].state = "created"}

\* the inner task after its wait loop: it marks its refs, runs the repair
\* call unless there is nothing to repair, pushes the result and releases
\* the refs
Enter(i) ==
    IF NothingToRepair(heap, rp.tasks[i].pieces)
    THEN \E r \in WorkspacePush(heap, ws, [none |-> TRUE], <<>>) :
            /\ heap' = r.heap
            /\ ws' = [ws EXCEPT !.seg_to_pieces = r.seg_to_pieces,
                                !.seg_of_pieces = r.seg_of_pieces]
            /\ rp' = [rp EXCEPT !.tasks[i].state = "done"]
    ELSE /\ rp' = [rp EXCEPT !.in_resolution = @ \cup rp.tasks[i].pieces,
                             !.tasks[i].state = "running"]
         /\ UNCHANGED <<heap, ws>>

\* _resolve_conflicts_once up to asyncio.wait: no conflict ends the rounds,
\* otherwise the tasks are created
RepairRound(messages) ==
    /\ rp.pc = "idle"
    /\ InRange(rp.round, rp.max_resolve_round)
    /\ LET conflicts_prefs == ConflictsPrefs(GetConflicts(heap, messages))
       IN rp' = IF conflicts_prefs = <<>>
                THEN IF Breaks(TRUE) THEN [rp EXCEPT !.pc = "converged"]
                     ELSE [rp EXCEPT !.round = @ + 1]
                ELSE [rp EXCEPT !.pc = "waiting", !.in_resolution = {},
                                !.tasks = [i \in DOMAIN conflicts_prefs |->
                                             [conflicts |-> conflicts_prefs[i].conflicts,
                                              pieces |-> conflicts_prefs[i].pieces,
                                              state |-> "created"]]]
    /\ last' = [op |-> "round", messages |-> messages]
    /\ UNCHANGED <<heap, spent, mres, ws, nc, ec>>

\* the for loop of EdgeCentricEngine._resolve_conflicts is exhausted
RepairExhausted ==
    /\ rp.pc = "idle"
    /\ ~InRange(rp.round, rp.max_resolve_round)
    /\ rp' = [rp EXCEPT !.pc = "exhausted"]
    /\ UNCHANGED <<heap, spent, last, mres, ws, nc, ec>>

\* the first step of a task: it sleeps when one of its refs is in resolution
RepairTaskStart ==
    /\ rp.pc = "waiting"
    /\ Created # {}
    /\ LET i == CHOOSE k \in Created : \A j \in Created : k <= j
       IN IF rp.tasks[i].pieces \cap rp.in_resolution # {}
          THEN /\ rp' = [rp EXCEPT !.tasks[i].state = "sleeping"]
               /\ UNCHANGED <<heap, ws>>
          ELSE Enter(i)
    /\ UNCHANGED <<spent, last, mres, nc, ec>>

\* a sleeping task wakes up and finds its refs free
RepairTaskWake(i) ==
    /\ rp.pc = "waiting"
    /\ Created = {}
    /\ rp.tasks[i].state = "sleeping"
    /\ rp.tasks[i].pieces \cap rp.in_resolution = {}
    /\ Enter(i)
    /\ UNCHANGED <<spent, last, mres, nc, ec>>

\* the end of a task that keeps its refs in resolution
RepairTaskFinishHolding(i, text) ==
    /\ rp.pc = "waiting"
    /\ Created = {}
    /\ rp.tasks[i].state = "running"
    /\ \E r \in WorkspacePush(heap, ws, [none |-> TRUE], text) :
          /\ heap' = r.heap
          /\ ws' = [ws EXCEPT !.seg_to_pieces = r.seg_to_pieces,
                              !.seg_of_pieces = r.seg_of_pieces]
    /\ rp' = [rp EXCEPT !.tasks[i].state = "done"]
    /\ UNCHANGED <<spent, last, mres, nc, ec>>

\* the repair call of a task returns text: push(None, text) and the release
RepairTaskFinish(i, text) ==
    /\ rp.pc = "waiting"
    /\ Created = {}
    /\ rp.tasks[i].state = "running"
    /\ \E r \in WorkspacePush(heap, ws, [none |-> TRUE], text) :
          /\ heap' = r.heap
          /\ ws' = [ws EXCEPT !.seg_to_pieces = r.seg_to_pieces,
                              !.seg_of_pieces = r.seg_of_pieces]
    /\ rp' = [rp EXCEPT !.in_resolution = @ \ rp.tasks[i].pieces,
                        !.tasks[i].state = "done"]
    /\ UNCHANGED <<spent, last, mres, nc, ec>>

\* asyncio.wait returns and the round is over
RepairRoundEnd ==
    /\ rp.pc = "waiting"
    /\ \A i \in DOMAIN rp.tasks : rp.tasks[i].state = "done"
    /\ rp' = [rp EXCEPT !.pc = "idle", !.round = @ + 1, !.tasks = <<>>]
    /\ UNCHANGED <<heap, spent, last, mres, ws, nc, ec>>

\* a round of NodeCentricEngine._resolve_conflicts up to its first repair
\* call, with the context workspace.trans_result() gives at this round: no
\* diagnostic of the batch ends the loop
BatchRound(reports) ==
    /\ nc.pc = "loop"
    /\ InRange(nc.round, nc.max_resolve_round)
    /\ \E msgs \in {NodeGetConflicts(nc.context, reports)} :
          nc' = IF Breaks(msgs = <<>>)
                THEN [nc EXCEPT !.pc = "break", !.round = @ + 1, !.msgs = msgs]
                ELSE [nc EXCEPT !.pc = "repair", !.round = @ + 1, !.msgs = msgs,
                                !.selected = SelectMessages(msgs)]
    /\ last' = [op |-> "round", messages |-> reports]
    /\ UNCHANGED <<heap, spent, mres, ws, ec, rp>>

\* the repair call for the next selected list returns text:
\* result.merge_in(RustCode.from_text(code))
BatchRepairCall(text) ==
    /\ nc.pc = "repair"
    /\ nc.selected # <<>>
    /\ \E t \in {FromText(heap, text)} :
          heap' = MergeIn(t.heap, ProgramRoot, t.root).heap
    /\ nc' = [nc EXCEPT !.selected = Tail(@)]
    /\ UNCHANGED <<spent, last, mres, ws, ec, rp>>

\* while the task awaits the repair generator, another batch task of the
\* project ends and calls workspace.push: workspace.trans_result(), which
\* every round reads anew, is another text from then on
BatchContextPush(context) ==
    /\ nc.pc = "repair"
    /\ nc.selected # <<>>
    /\ context # <<>> /\ context # nc.context
    /\ nc' = [nc EXCEPT !.context = context]
    /\ UNCHANGED <<heap, spent, last, mres, ws, ec, rp>>

\* the selected lists of the round are used up
BatchRoundEnd ==
    /\ nc.pc = "repair"
    /\ nc.selected = <<>>
    /\ nc' = [nc EXCEPT !.pc = "loop"]
    /\ UNCHANGED <<heap, spent, last, mres, ws, ec, rp>>

\* after the break or the last round result.text is returned
BatchReturn ==
    /\ nc.pc = "break" \/ (nc.pc = "loop" /\ ~InRange(nc.round, nc.max_resolve_round))
    /\ nc' = [nc EXCEPT !.pc = "returned"]
    /\ UNCHANGED <<heap, spent, last, mres, ws, ec, rp>>

NextRepair ==
    \/ \E messages \in Messages : RepairRound(messages)
    \/ RepairTaskStart
    \/ \E i \in DOMAIN rp.tasks : RepairTaskWake(i)
    \/ \E i \in DOMAIN rp.tasks, text \in Texts(RepairPool, 1) : RepairTaskFinish(i, text)
    \/ RepairRoundEnd
    \/ RepairExhausted
    \/ \E reports \in Texts(NodeReports, MaxMessages) : BatchRound(reports)
    \/ \E text \in Texts(RepairPool, 1) : BatchRepairCall(text)
    \/ \E context \in RepairContexts : BatchContextPush(context)
    \/ BatchRoundEnd
    \/ BatchReturn

SpecRepair == InitRepair /\ [][NextRepair]_vars

(***************************************************************************)
(* Claims about the repair round (SpecRepair).                             *)
(***************************************************************************)
\* two refs overlap: they name the same Piece, or one names a container of
\* the Piece the other names
Overlap(r1, r2) ==
    LET n == IF Len(r1) < Len(r2) THEN Len(r1) ELSE Len(r2)
    IN SubSeq(r1, 1, n) = SubSeq(r2, 1, n)

\* C7: no two repair tasks in flight hold overlapping Pieces (the same Piece,
\* or a container and a Piece nested in it).
C7_NoOverlappingRepairs ==
    \A i, j \in DOMAIN rp.tasks :
        (i # j /\ rp.tasks[i].state = "running" /\ rp.tasks[j].state = "running")
            => \A r1 \in rp.tasks[i].pieces, r2 \in rp.tasks[j].pieces : ~Overlap(r1, r2)

\* the repair rounds the edge-centric engine has begun
RoundsBegun == rp.round + (IF rp.pc \in {"waiting", "converged"} THEN 1 ELSE 0)

\* the diagnostics of a report that name a Piece of the program
ActionableOf(messages) ==
    {i \in DOMAIN messages :
        PiecesOfConflict(messages[i], PieceRefRanges(heap, ProgramRoot)) # {}}

\* the diagnostics of the last edge-centric round that name a Piece of the
\* program
Actionable == ActionableOf(last.messages)

\* the diagnostics of the last round with the Pieces they are attributed to,
\* while the tasks of the round are as they were created
Attributed ==
    {<<last.messages[i], PiecesOfConflict(last.messages[i], PieceRefRanges(heap, ProgramRoot))>>
        : i \in DOMAIN last.messages}

\* the places <<task, index>> of a diagnostic in the tasks of the round
PlacesOf(m) ==
    {<<i, k>> \in (DOMAIN rp.tasks) \X (1..MaxMessages) :
        k \in DOMAIN rp.tasks[i].conflicts /\ rp.tasks[i].conflicts[k] = m}

JustCreated == rp.pc = "waiting" /\ \A i \in DOMAIN rp.tasks : rp.tasks[i].state = "created"

\* C30: in the tasks an edge-centric repair round creates, every diagnostic
\* attributed to a Piece occurs once and no other diagnostic occurs; a
\* diagnostic attributed to one Piece is in the task of that Piece together
\* with every other diagnostic attributed to that Piece alone; a diagnostic
\* attributed to several Pieces is alone in a task that holds these Pieces.
C30_OneTaskPerDiagnostic ==
    JustCreated =>
        \A e \in Attributed :
            /\ Cardinality(PlacesOf(e[1])) = (IF e[2] = {} THEN 0 ELSE 1)
            /\ \A pl \in PlacesOf(e[1]) :
                  /\ rp.tasks[pl[1]].pieces = e[2]
                  /\ Range(rp.tasks[pl[1]].conflicts) =
                        IF Cardinality(e[2]) > 1 THEN {e[1]}
                        ELSE {f[1] : f \in {g \in Attributed : g[2] = e[2]}}

\* a round whose two diagnostics are attributed to the same single Piece
C30_Witness ==
    /\ JustCreated
    /\ Len(rp.tasks) = 1
    /\ Len(rp.tasks[1].conflicts) = 2 /\ Cardinality(rp.tasks[1].pieces) = 1

\* a round with a diagnostic attributed to several Pieces
C30_SeveralWitness ==
    /\ JustCreated
    /\ \E i \in DOMAIN rp.tasks : Cardinality(rp.tasks[i].pieces) > 1

\* a step that begins a round of the edge-centric engine
EdgeRoundBegins == rp.pc = "idle" /\ rp' # rp /\ rp'.pc # "exhausted"

\* a step that begins a round of a node-centric batch
BatchRoundBegins == nc.pc = "loop" /\ nc'.round = nc.round + 1

\* C19: either engine begins at most max_resolve_round repair rounds; an
\* edge-centric round that finds no diagnostic attributed to a Piece ends the
\* rounds, and only such a round does; a round of a node-centric batch that
\* finds no diagnostic of the batch ends its rounds, and only such a round
\* does; nothing follows that round but the return; and when the rounds are
\* used up the phase ends and the batch result is returned whatever the last
\* round has reported.
C19_RepairRoundsBounded ==
    /\ [](/\ RoundsBegun <= rp.max_resolve_round
          /\ nc.round <= nc.max_resolve_round
          /\ rp.pc = "converged" => Actionable = {}
          /\ rp.pc = "waiting" => rp.tasks # <<>>
          /\ nc.pc = "break" <=> (nc.round > 0 /\ nc.msgs = <<>> /\ nc.pc \notin {"returned", "off"})
          /\ (rp.pc = "idle" /\ rp.round = rp.max_resolve_round) => ENABLED RepairExhausted
          /\ (nc.pc = "loop" /\ nc.round = nc.max_resolve_round) => ENABLED BatchReturn)
    /\ [][/\ EdgeRoundBegins =>
                /\ heap' = heap
                /\ rp'.pc = "converged" <=> ActionableOf(last'.messages) = {}
                /\ rp'.pc = "waiting" <=> ActionableOf(last'.messages) # {}
          /\ BatchRoundBegins => (nc'.pc = "break" <=> nc'.msgs = <<>>)
          /\ rp.pc = "converged" => rp' = rp
          /\ nc.pc = "break" => (nc' = [nc EXCEPT !.pc = "returned"] /\ heap' = heap)]_vars

\* the first of two edge-centric rounds found no diagnostic of a Piece and
\* the second one was not begun
C19_Witness ==
    /\ rp.pc = "converged" /\ rp.round = 0 /\ rp.max_resolve_round = 2
    /\ last.op = "round"

\* the second of two edge-centric rounds found no diagnostic of a Piece
\* after the first one had repaired Pieces
C19_SecondWitness ==
    /\ rp.pc = "converged" /\ rp.round = 1 /\ rp.max_resolve_round = 2

\* the edge-centric rounds are used up after two rounds that repaired Pieces
C19_ExhaustedWitness ==
    /\ rp.pc = "exhausted" /\ rp.round = 2
    /\ last.op = "round" /\ last.messages # <<>>

\* the rounds of a node-centric batch ended at the first of two rounds
C19_BreakWitness ==
    nc.pc = "returned" /\ nc.round = 1 /\ nc.max_resolve_round = 2 /\ nc.msgs = <<>>

\* the result of a node-centric batch is returned after max_resolve_round
\* rounds, the last of which had diagnostics
C19_BatchWitness ==
    nc.pc = "returned" /\ nc.round = 2 /\ nc.max_resolve_round = 2 /\ nc.msgs # <<>>

(***************************************************************************)
(* SpecScope: NodeCentricEngine._get_conflicts for a context and a batch   *)
(* text.  A text is a list of atoms, NL or a piece of code without a line  *)
(* break; the toolchain reports at most one diagnostic, with spans over    *)
(* the lines of the text it was given.                                     *)
(***************************************************************************)
MaxTextLen == 3     \* atoms of a context or batch text
MaxSpanNum == 2     \* spans of a diagnostic

\* the texts of at most MaxTextLen atoms
ScopeTexts == {<<>>} \cup SeqsUpTo({"x", NL}, MaxTextLen)

\* full_code = context + "\n" + rust_code
FullCode(context, rust_code) == context \o <<NL>> \o rust_code

\* the lines of a text that hold code
CodeLines(text) ==
    {1 + Cardinality({j \in 1..(i - 1) : text[j] = NL}) : i \in {k \in DOMAIN text : text[k] # NL}}

\* the spans of a diagnostic: from a line with code to a line with code, over
\* at most two lines
ScopeSpans(text) ==
    {sp \in [line_start : CodeLines(text), line_end : CodeLines(text)] :
        sp.line_start <= sp.line_end /\ sp.line_end <= sp.line_start + 1}

\* what validate may report for a text: nothing or one diagnostic
ScopeReports(text) ==
    {<<>>} \cup {<<[all_spans |-> spans]>> :
                    spans \in {<<>>} \cup SeqsUpTo(ScopeSpans(text), MaxSpanNum)}

InitScope ==
    /\ heap = <<>> /\ spent = {} /\ mres = Idle /\ ws = Idle /\ ec = Idle /\ rp = Idle
    /\ last = [op |-> "none"]
    /\ \E context \in ScopeTexts, rust_code \in ScopeTexts \ {<<>>} :
          nc = [pc |-> "ready", context |-> context, rust_code |-> rust_code]

\* _get_conflicts(context, rust_code) with the report of validate
ScopeGetConflicts(reports) ==
    /\ nc.pc = "ready"
    /\ reports \in ScopeReports(FullCode(nc.context, nc.rust_code))
    /\ last' = [op |-> "get_conflicts", reports |-> reports,
                msgs |-> KeptFrom(StartLineOf(nc.context), reports)]
    /\ nc' = [nc EXCEPT !.pc = "called"]
    /\ UNCHANGED <<heap, spent, mres, ws, ec, rp>>

\* the caller goes on to the next round with another report
ScopeAgain ==
    /\ nc.pc = "called"
    /\ nc' = [nc EXCEPT !.pc = "ready"]
    /\ UNCHANGED <<heap, spent, last, mres, ws, ec, rp>>

NextScope ==
    \/ \E reports \in ScopeReports(FullCode(nc.context, nc.rust_code)) :
          ScopeGetConflicts(reports)
    \/ ScopeAgain

SpecScope == InitScope /\ [][NextScope]_vars

(***************************************************************************)
(* Claims about the scope of the node-centric repair (SpecScope).          *)
(***************************************************************************)
\* the lines of context + "\n" + rust_code the batch text lies on
BatchLines ==
    (CountNL(nc.context) + 2) .. (CountNL(nc.context) + 2 + CountNL(nc.rust_code))

\* the lines the context lies on
ContextLines == 1 .. (CountNL(nc.context) + 1)

\* C23: _get_conflicts keeps a diagnostic exactly when one of its spans
\* touches a line of the batch text; a diagnostic whose spans all lie on
\* lines of the context is dropped.
C23_KeptIffInBatch ==
    last.op = "get_conflicts" =>
        \A k \in DOMAIN last.reports :
            (\E j \in DOMAIN last.msgs : last.msgs[j] = last.reports[k])
                <=> \E i \in DOMAIN last.reports[k].all_spans :
                       LET sp == last.reports[k].all_spans[i]
                       IN (sp.line_start .. sp.line_end) \cap BatchLines # {}

(***************************************************************************)
(* Copies of Pieces and the partitions of a tree (analyzer/utils.py).      *)
(* A copy is a new Piece at the end of the heap; the results are           *)
(* [heap, id], with id = None where the code returns None.                 *)
(***************************************************************************)
\* RustExtendable.empty_copy: the constructor of the class and the fields
\* RustPiece.copy and the empty_copy methods of the classes take over
EmptyCopy(h, p) ==
    Append(h, [h[p] EXCEPT !.parent = None, !.items = <<>>, !.use_decls = {}])

RECURSIVE Copy(_, _), CopyItems(_, _, _)
\* Piece.copy / RustPiece.copy / RustExtendable.copy
Copy(h, p) ==
    IF IsExtendable(h[p].kind)
    THEN CopyItems(EmptyCopy(h, p), Len(h) + 1, Items(h, p))
    ELSE [heap |-> Append(h, [h[p] EXCEPT !.parent = None]), id |-> Len(h) + 1]

\* the loop of RustExtendable.copy: p.add(item.copy())
CopyItems(h, c, its) ==
    IF its = <<>> THEN [heap |-> h, id |-> c]
    ELSE LET Put(r) == CopyItems(Add(r.heap, c, r.id).heap, c, Tail(its))
         IN Put(Copy(h, Head(its)))

\* `item in set(pieces)`: Pieces hash and compare by their text
InPieces(h, item, pieces) == \E q \in pieces : PieceEq(h, item, q)

RECURSIVE Trimmed(_, _, _), TrimLoop(_, _, _, _)
\* the loop of trimmed over self.items; p is the empty copy
TrimLoop(h, p, its, pieces) ==
    IF its = <<>> THEN [heap |-> h, id |-> IF h[p].items = <<>> THEN None ELSE p]
    ELSE LET item == Head(its)
             Put(r) == IF r.id = None THEN r.heap ELSE Add(r.heap, p, r.id).heap
             Rest(h1) == TrimLoop(h1, p, Tail(its), pieces)
         IN IF InPieces(h, item, pieces) THEN Rest(Put(Copy(h, item)))
            ELSE IF IsSplittable(h[item].kind) THEN Rest(Put(Trimmed(h, item, pieces)))
            ELSE IF IsExtendable(h[item].kind) /\ \E q \in pieces : Contains(h, item, q)
                 THEN Rest(Put(Copy(h, item)))
            ELSE Rest(h)

\* RustSplittable.trimmed
Trimmed(h, c, pieces) == TrimLoop(EmptyCopy(h, c), Len(h) + 1, Items(h, c), pieces)

RECURSIVE SplitLoop(_, _, _, _, _)
\* the loop of split over self.items; p1 and p2 are the empty copies
SplitLoop(h, p1, p2, its, pieces) ==
    IF its = <<>>
    THEN [heap |-> h,
          p1 |-> IF h[p1].items = <<>> THEN None ELSE p1,
          p2 |-> IF h[p2].items = <<>> THEN None ELSE p2]
    ELSE LET item == Head(its)
             Put(r, p) == SplitLoop(Add(r.heap, p, r.id).heap, p1, p2, Tail(its), pieces)
         IN Put(Copy(h, item), IF InPieces(h, item, pieces) THEN p1 ELSE p2)

\* RustSplittable.split
Split(h, c, pieces) ==
    SplitLoop(EmptyCopy(EmptyCopy(h, c), c), Len(h) + 1, Len(h) + 2, Items(h, c), pieces)

(***************************************************************************)
(* SpecTree: a program is parsed into a tree; then one of piece_ref_ranges *)
(* (with pieces_of_conflict on its ranges), trimmed (and trimmed again on  *)
(* its result) and split is called on the root, or a new Piece is added to *)
(* a container of the tree and then a copy of that Piece.                  *)
(***************************************************************************)
MaxSpanLine == 6        \* the lines the spans of a diagnostic refer to
MaxSpans == 2           \* the spans of a diagnostic

R_fn_x == MkDesc("fn", N_x, 1, <<>>, <<>>)
R_struct_Sxq == MkDesc("struct", <<"S">>, 0, <<>>,
                       << MkDesc("field", N_x, 1, <<>>, <<>>),
                          MkDesc("field", N_q, 1, <<>>, <<>>) >>)

R_use_q == MkDesc("use", UseName(<<"p", "::", "q">>), 0, N_q,
                  << MkDesc("useid", N_self, 0, <<>>, <<>>) >>)

\* use p::q::{self, q}: both identifiers bind q
R_use_self_q == MkDesc("use", UseName(<<"p", "::", "q">>), 0, N_q,
                       << MkDesc("useid", N_self, 0, <<>>, <<>>),
                          MkDesc("useid", N_q, 0, <<>>, <<>>) >>)

\* use r::{q}
R_use_r_q == MkDesc("use", UseName(<<"r">>), 0, <<"r">>,
                    << MkDesc("useid", N_q, 0, <<>>, <<>>) >>)

\* the top-level items of the programs: an impl block with and without a
\* comment, a function with and without a comment and an attribute, a
\* function whose text is the text of a method of the impl block, a struct,
\* three imports that bind q (through self, through self and q, through q)
\* and a function q
TreePool == {R_impl_Tab, [R_impl_Tab EXCEPT !.comm = CommentOf(1)],
             R_fn_x, [R_fn_x EXCEPT !.comm = CommentOf(1), !.attr = 1],
             MkDesc("fn", N_a, 1, <<>>, <<>>), R_struct_Sxq,
             R_use_q, R_use_self_q, R_use_r_q, MkDesc("fn", N_q, 1, <<>>, <<>>)}

\* the members that are added to the containers below the root
MemberPool == {MkDesc("field", N_a, 1, <<>>, <<>>), MkDesc("useid", N_x, 0, <<>>, <<>>)}

\* message.all_spans of the diagnostics
TreeSpans == {sp \in [file_name : {LibFile, "src/main.rs"},
                      line_start : 1..MaxSpanLine, line_end : 1..MaxSpanLine] :
                 sp.line_start <= sp.line_end}

othersOfTree == <<spent, mres, ws, nc, ec, rp>>

InitTree ==
    /\ \E text \in Texts(TreePool, MaxTextItems) \ {<<>>} :
          heap = FromText(<<>>, text).heap
    /\ last = [op |-> "none"]
    /\ spent = {}
    /\ mres = Idle /\ ws = Idle /\ nc = Idle /\ ec = Idle /\ rp = Idle

\* RustCode.piece_ref_ranges on the program
CallPieceRefRanges ==
    /\ last.op = "none"
    /\ last' = [op |-> "ranges", frags |-> Walk(heap, ProgramRoot, <<>>),
                ranges |-> PieceRefRanges(heap, ProgramRoot)]
    /\ UNCHANGED <<heap, othersOfTree>>

\* pieces_of_conflict and pieces_of_conflicts for one diagnostic
CallPiecesOfConflict(message) ==
    /\ last.op = "ranges"
    /\ last' = [op |-> "conflict", message |-> message, ranges |-> last.ranges,
                pieces |-> PiecesOfConflict(message, last.ranges),
                kept |-> PiecesOfConflicts(<<message>>, last.ranges)]
    /\ UNCHANGED <<heap, othersOfTree>>

\* root.trimmed(pieces)
CallTrimmed(pieces) ==
    /\ last.op = "none"
    /\ \E r \in {Trimmed(heap, ProgramRoot, pieces)} :
          /\ heap' = r.heap
          /\ last' = [op |-> "trimmed", pieces |-> pieces, result |-> r.id, pre |-> heap]
    /\ UNCHANGED othersOfTree

\* result.trimmed(pieces) on the result of the call before
CallTrimmedAgain ==
    /\ last.op = "trimmed"
    /\ last.result # None
    /\ \E r \in {Trimmed(heap, last.result, last.pieces)} :
          /\ heap' = r.heap
          /\ last' = [op |-> "retrimmed", pieces |-> last.pieces, first |-> last.result,
                      result |-> r.id, pre |-> heap]
    /\ UNCHANGED othersOfTree

\* root.split(pieces)
CallSplit(pieces) ==
    /\ last.op = "none"
    /\ \E r \in {Split(heap, ProgramRoot, pieces)} :
          /\ heap' = r.heap
          /\ last' = [op |-> "split", pieces |-> pieces, p1 |-> r.p1, p2 |-> r.p2,
                      pre |-> heap]
    /\ UNCHANGED othersOfTree

\* c.add(p) for a new Piece p created from the description d
TreeAdd(c, d) ==
    /\ last.op = "none"
    /\ c \in {ProgramRoot} \cup Descendants(heap, ProgramRoot)
    /\ IsExtendable(heap[c].kind) /\ Accepts(heap[c].kind, d.kind)
    /\ \E p \in {CreatePiece(heap, d)} :
       \E r \in {Add(p.heap, c, p.id)} :
          /\ heap' = r.heap
          /\ last' = [op |-> "add", c |-> c, item |-> p.id, popped |-> r.popped, pre |-> p.heap]
    /\ UNCHANGED othersOfTree

\* p.set_comment(comment) for a Piece of the program, before the call that
\* is observed
TreeSetComment(p, lines) ==
    /\ last.op = "none"
    /\ p \in {ProgramRoot} \cup Descendants(heap, ProgramRoot)
    /\ Cardinality({q \in DOMAIN heap \ {p} : heap[q].comm # <<>>}) < MaxCommented
    /\ heap' = SetComment(heap, p, lines)
    /\ UNCHANGED <<last, othersOfTree>>

\* c.add(p.copy()) after c.add(p)
TreeAddCopy ==
    /\ last.op = "add"
    /\ \E p \in {Copy(heap, last.item)} :
       \E r \in {Add(p.heap, last.c, p.id)} :
          /\ heap' = r.heap
          /\ last' = [op |-> "addcopy", c |-> last.c, orig |-> last.item, item |-> p.id,
                      popped |-> r.popped, pre |-> heap]
    /\ UNCHANGED othersOfTree

NextTree ==
    \/ \E c \in DOMAIN heap, d \in TreePool \cup MemberPool : TreeAdd(c, d)
    \/ TreeAddCopy
    \/ \E p \in DOMAIN heap, n \in 0..MaxCommentLines : TreeSetComment(p, CommentOf(n))
    \/ CallPieceRefRanges
    \/ \E message \in SeqsUpTo(TreeSpans, MaxSpans) : CallPiecesOfConflict(message)
    \/ \E pieces \in SUBSET Descendants(heap, ProgramRoot) : CallTrimmed(pieces)
    \/ CallTrimmedAgain
    \/ \E pieces \in SUBSET Descendants(heap, ProgramRoot) : CallSplit(pieces)

SpecTree == InitTree /\ [][NextTree]_vars

(***************************************************************************)
(* Claims about the rendered program and its line ranges (SpecTree).       *)
(***************************************************************************)
RECURSIVE ConcatTexts(_)
\* "".join(text for _, text in frags)
ConcatTexts(frags) ==
    IF frags = <<>> THEN <<>> ELSE Head(frags).text \o ConcatTexts(Tail(frags))

RECURSIVE TextBefore(_, _, _)
\* the part of the rendered text of c that precedes the text of the Piece p
\* stored below c
TextBefore(h, c, p) ==
    LET items == Items(h, c)
        lead == SubSeq(Text(h, c), 1, Len(Text(h, c)) - Len(OwnText(h, c)))
        Upto(k) == lead \o Header(h, c)
                   \o ConcatTexts([i \in 1..(k - 1) |->
                                     [text |-> Text(h, items[i]) \o Sep(h, c)]])
                   \o (IF items[k] = p THEN <<>> ELSE TextBefore(h, items[k], p))
    IN Upto(CHOOSE i \in DOMAIN items : items[i] = p \/ Contains(h, items[i], p))

\* the 1-based inclusive range of the lines the text of p occupies in the
\* rendered program
LinesOf(h, p) ==
    LET From(n) == <<n, n + CountNL(Text(h, p))>>
    IN From(1 + CountNL(TextBefore(h, ProgramRoot, p)))

\* C11: the fragments of walk() concatenate to the rendered program text, and
\* the range piece_ref_ranges() gives to a Piece that is not splittable is the
\* range of the lines its text occupies in the rendered program.
C11_WalkRendersProgram ==
    last.op = "ranges" =>
        /\ ConcatTexts(last.frags) = Text(heap, ProgramRoot)
        /\ \A i \in DOMAIN last.ranges :
              LET p == Resolve(heap, ProgramRoot, last.ranges[i][1])
              IN (p # None /\ ~IsSplittable(heap[p].kind))
                    => <<last.ranges[i][2], last.ranges[i][3]>> = LinesOf(heap, p)

\* C12: piece_ref_ranges() lists its ranges with non-decreasing start lines,
\* and the ranges of two different Pieces have no line in common.
C12_RangesOrderedDisjoint ==
    last.op = "ranges" =>
        \A i, j \in DOMAIN last.ranges :
            i < j => /\ last.ranges[i][2] <= last.ranges[j][2]
                     /\ last.ranges[i][1] # last.ranges[j][1]
                            => last.ranges[i][3] < last.ranges[j][2]

\* the Pieces whose range contains a span of the message in src/lib.rs
ContainingPieces(message, ranges) ==
    {ranges[k][1] : k \in {k \in DOMAIN ranges :
        \E i \in DOMAIN message :
            /\ message[i].file_name = LibFile
            /\ ranges[k][2] <= message[i].line_start
            /\ message[i].line_end <= ranges[k][3]}}

\* C13: pieces_of_conflict attributes a diagnostic to exactly the Pieces whose
\* line range contains one of its spans in src/lib.rs, and pieces_of_conflicts
\* drops a diagnostic that no Piece's range contains.
C13_AttributionByContainment ==
    last.op = "conflict" =>
        /\ last.pieces = ContainingPieces(last.message, last.ranges)
        /\ last.kept = IF ContainingPieces(last.message, last.ranges) = {} THEN <<>>
                       ELSE << <<last.message, ContainingPieces(last.message, last.ranges)>> >>

\* a Piece of three lines gets a diagnostic with a span on its middle line,
\* and none of the other Pieces of the program does
C13_Witness ==
    /\ last.op = "conflict"
    /\ Len(last.ranges) > 1
    /\ \E k \in DOMAIN last.ranges :
          /\ last.ranges[k][3] = last.ranges[k][2] + 2
          /\ \E i \in DOMAIN last.message :
                /\ last.message[i].file_name = LibFile
                /\ last.message[i].line_start = last.ranges[k][2] + 1
                /\ last.message[i].line_end = last.ranges[k][2] + 1
          /\ last.pieces = {last.ranges[k][1]}

(***************************************************************************)
(* Claims about trimmed and split (SpecTree).                              *)
(***************************************************************************)
RECURSIVE PathOf(_, _)
\* the names that lead from the root of its tree to the Piece p
PathOf(h, p) == IF h[p].parent = None THEN <<>> ELSE Append(PathOf(h, h[p].parent), h[p].name)

\* the Pieces below c that are not containers
Leaves(h, c) == {p \in Descendants(h, c) : ~IsExtendable(h[p].kind)}

\* the leaves below c that S requests: members of S and the leaves of the
\* containers in S
Requested(h, c, S) == {p \in Leaves(h, c) : p \in S \/ \E q \in S : Contains(h, q, p)}

\* C14: trimmed(S) returns None when S requests nothing of the tree, and else
\* a tree whose leaves are exactly the requested leaves, each at the path it
\* has in the source tree.
C14_TrimmedExact ==
    last.op = "trimmed" =>
        IF Requested(last.pre, ProgramRoot, last.pieces) = {} THEN last.result = None
        ELSE /\ last.result # None
             /\ {PathOf(heap, p) : p \in Leaves(heap, last.result)}
                    = {PathOf(last.pre, p) : p \in Requested(last.pre, ProgramRoot, last.pieces)}

\* C15: trimming the result of trimmed(T, S) again with S gives a tree with
\* the text of trimmed(T, S).
C15_TrimmedIdempotent ==
    last.op = "retrimmed" =>
        /\ last.result # None
        /\ Text(heap, last.result) = Text(heap, last.first)

\* the Pieces of the tree with the root c (none for None)
TreeOf(h, c) == IF c = None THEN {} ELSE {c} \cup Descendants(h, c)

\* the trees the last call returned
Returned ==
    IF last.op = "split" THEN {last.p1, last.p2} ELSE {last.result}

\* after trimmed and split every Piece of the source is as it was (its
\* children, its parent link, its fields), the source renders the same text
\* and the results consist of new Pieces only
SourceKept ==
    /\ \A p \in DOMAIN last.pre : heap[p] = last.pre[p]
    /\ Text(heap, ProgramRoot) = Text(last.pre, ProgramRoot)
    /\ \A c \in Returned : TreeOf(heap, c) \cap DOMAIN last.pre = {}

\* C16: trimmed and split leave every Piece of the source as it was (its
\* children, its parent link, its text), their results share no Piece with
\* the source, and split puts every direct child of the source into exactly
\* one of its two results.
C16_SourceUnchanged ==
    last.op \in {"trimmed", "retrimmed", "split"} =>
        /\ SourceKept
        /\ last.op = "split" =>
              \A ch \in Range(last.pre[ProgramRoot].items) :
                  Cardinality({c \in TreeOf(heap, last.p1) \cup TreeOf(heap, last.p2) :
                                  /\ heap[c].parent \in {last.p1, last.p2}
                                  /\ heap[c].parent # None
                                  /\ heap[c].name = last.pre[ch].name
                                  /\ PieceEq(heap, c, ch)}) = 1

\* split has put two imports that bind one name into the same result: the
\* copy of the first is not among the direct children of either result
SplitLosesImport ==
    /\ last.op = "split"
    /\ SourceKept
    /\ \E ch \in Range(last.pre[ProgramRoot].items) :
          /\ last.pre[ch].kind = "use"
          /\ \A c \in TreeOf(heap, last.p1) \cup TreeOf(heap, last.p2) :
                heap[c].parent \in {last.p1, last.p2} => heap[c].name # last.pre[ch].name

(***************************************************************************)
(* Claims about add on the trees of SpecTree.                              *)
(***************************************************************************)
\* C17: add(p) followed by add(copy of p) leaves the rendered text of the tree
\* and of the container as it was after the first add, and the second add
\* returns the original p.
C17_AddCopyEvictsOriginal ==
    last.op = "addcopy" =>
        /\ Text(heap, ProgramRoot) = Text(last.pre, ProgramRoot)
        /\ Text(heap, last.c) = Text(last.pre, last.c)
        /\ last.orig \in Range(last.popped)

(***************************************************************************)
(* SpecSynth: EdgeCentricEngine._sythesize_for_segments for one batch.     *)
(* The answers of the generator are inputs: an answer is the list of the   *)
(* code blocks of its markdown, a block has a language tag and is          *)
(* syntactically valid or not.  A text is the list of the blocks it is     *)
(* made of; the empty list is the empty text.                              *)
(***************************************************************************)
GRAMMAR_RETRY == 2
MaxBlocks == 2      \* code blocks of an answer

\* no grammar check: every text passes
GrammarCorrectAlways(rust_code) == TRUE

\* grammar_correct: the parse of the text has no error node; a text made of
\* valid blocks is valid
GrammarCorrect(rust_code) == \A i \in DOMAIN rust_code : rust_code[i].ok

\* first_rust_code_from_md, None as the empty text (`or ""`)
FirstRustCodeFromMd(md) ==
    LET found == {i \in DOMAIN md : md[i].lang = "rust" \/ GrammarCorrect(<<md[i]>>)}
    IN IF found = {} THEN <<>> ELSE <<md[CHOOSE i \in found : \A j \in found : i <= j]>>

\* all_rust_code_from_md
AllRustCodeFromMd(md) == SelectSeq(md, LAMBDA b : GrammarCorrect(<<b>>))

\* self._collect_rust_code(raw_result) or ""
CollectRustCode(collect, md) ==
    IF collect = "all" THEN AllRustCodeFromMd(md) ELSE FirstRustCodeFromMd(md)

\* the answers to the call-th call of the agent
Answers(call) ==
    {[j \in DOMAIN blocks |-> [call |-> call, block |-> j,
                               lang |-> blocks[j].lang, ok |-> blocks[j].ok]] :
        blocks \in {<<>>} \cup SeqsUpTo([lang : {"rust", "c"}, ok : BOOLEAN], MaxBlocks)}

\* the model name decides which collector the engine uses (__init__)
InitSynth ==
    /\ heap = <<>> /\ spent = {} /\ mres = Idle /\ ws = Idle /\ nc = Idle /\ rp = Idle
    /\ last = [op |-> "none", answers |-> <<>>]
    /\ \E collect \in {"first", "all"} :
          ec = [pc |-> "loop", collect |-> collect, i |-> 0, trans_result |-> <<>>,
                generate_calls |-> 0, fix_calls |-> 0]

othersOfSynth == <<heap, spent, mres, ws, nc, rp>>

\* one pass of the retry loop: generate_rust answers, a valid text is returned
SynthGenerate(raw_result) ==
    /\ ec.pc = "loop"
    /\ InRange(ec.i, GRAMMAR_RETRY)
    /\ \E trans_result \in {CollectRustCode(ec.collect, raw_result)} :
          ec' = [ec EXCEPT !.trans_result = trans_result,
                           !.generate_calls = @ + 1,
                           !.i = @ + 1,
                           !.pc = IF GrammarCorrect(trans_result) THEN "returned" ELSE "loop"]
    /\ last' = [op |-> "generate", answers |-> Append(last.answers, raw_result)]
    /\ UNCHANGED othersOfSynth

\* the loop is over: _fix_grammar returns a valid text as it is, and asks the
\* toolchain and the agent otherwise
SynthFixGrammar ==
    /\ ec.pc = "loop"
    /\ ~InRange(ec.i, GRAMMAR_RETRY)
    /\ ec' = [ec EXCEPT !.pc = IF GrammarCorrect(ec.trans_result) THEN "returned" ELSE "fix"]
    /\ UNCHANGED <<last, othersOfSynth>>

\* fix_grammar answers: its text is returned
SynthFixReturn(raw_result) ==
    /\ ec.pc = "fix"
    /\ ec' = [ec EXCEPT !.trans_result = CollectRustCode(ec.collect, raw_result),
                        !.fix_calls = @ + 1,
                        !.pc = "returned"]
    /\ last' = [op |-> "fix_grammar", answers |-> Append(last.answers, raw_result)]
    /\ UNCHANGED othersOfSynth

NextSynth ==
    \/ \E raw_result \in Answers(ec.generate_calls + 1) : SynthGenerate(raw_result)
    \/ SynthFixGrammar
    \/ \E raw_result \in Answers(GRAMMAR_RETRY + 1) : SynthFixReturn(raw_result)

SpecSynth == InitSynth /\ [][NextSynth]_vars

(***************************************************************************)
(* Claims about the synthesis of a batch (SpecSynth).                      *)
(***************************************************************************)
\* a text without a syntax error, by its blocks
Valid(text) == \A i \in DOMAIN text : text[i].ok

\* the text the k-th answer was collected to
Collected(k) == CollectRustCode(ec.collect, last.answers[k])

\* C20: the generator is called at most GRAMMAR_RETRY times and the first
\* valid text is returned at once; fix-grammar is called at most once and
\* only after GRAMMAR_RETRY invalid texts; its text is returned valid or not;
\* and until a text is returned a step is possible.
C20_SynthesisPolicy ==
    /\ ec.generate_calls <= GRAMMAR_RETRY /\ ec.fix_calls <= 1
    /\ Len(last.answers) = ec.generate_calls + ec.fix_calls
    /\ \A k \in 1..ec.generate_calls :
          k < ec.generate_calls => ~Valid(Collected(k))
    /\ (ec.pc = "fix" \/ ec.fix_calls = 1) =>
          /\ ec.generate_calls = GRAMMAR_RETRY
          /\ \A k \in 1..GRAMMAR_RETRY : ~Valid(Collected(k))
    /\ (ec.pc = "returned" /\ ec.fix_calls = 0) =>
          /\ ec.generate_calls >= 1
          /\ ec.trans_result = Collected(ec.generate_calls)
          /\ Valid(ec.trans_result)
    /\ (ec.pc = "returned" /\ ec.fix_calls = 1) =>
          ec.trans_result = Collected(GRAMMAR_RETRY + 1)
    /\ (ec.pc = "loop" /\ ec.generate_calls >= 1) => ~Valid(ec.trans_result)
    /\ ec.pc # "returned" => ENABLED NextSynth

\* fix-grammar was called after two invalid texts and its invalid text is
\* returned
C20_Witness ==
    /\ ec.pc = "returned" /\ ec.fix_calls = 1 /\ ec.generate_calls = GRAMMAR_RETRY
    /\ ~Valid(ec.trans_result)

\* the second text of the generator is valid and is returned
C20_SecondAttemptWitness ==
    /\ ec.pc = "returned" /\ ec.fix_calls = 0 /\ ec.generate_calls = GRAMMAR_RETRY
    /\ ec.trans_result # <<>>

(***************************************************************************)
(* Claims about the imports of the program (SpecPiece).                    *)
(***************************************************************************)
\* the import identifiers in the tree of the Program root
ImportIds(h) ==
    {p \in Descendants(h, ProgramRoot) : h[p].kind = "useid" /\ h[h[p].parent].kind = "use"}

\* C18: in the tree of the Program root no name is bound by two import
\* identifiers, and after add(import) no identifier of an earlier import that
\* binds a name of the added import is in the tree, nor is its declaration
\* when that has no other identifier.
C18_OneBindingPerName ==
    /\ \A p, q \in ImportIds(heap) :
          p # q => BoundName(heap, heap[p].parent, p) # BoundName(heap, heap[q].parent, q)
    /\ (last.op = "add" /\ last.c = ProgramRoot /\ heap[last.item].kind = "use") =>
          \A old \in ImportIds(last.pre) :
              (\E n \in Range(last.pre[last.item].items) :
                   BoundName(last.pre, last.item, n)
                       = BoundName(last.pre, last.pre[old].parent, old))
                  => /\ old \notin Descendants(heap, ProgramRoot)
                     /\ Range(last.pre[last.pre[old].parent].items) = {old}
                            => last.pre[old].parent \notin Descendants(heap, ProgramRoot)

(***************************************************************************)
(* retry_forever (llm/api_inference.py).  A call of chat() ends with a     *)
(* result, which may be None, or with an exception:                        *)
(*   [kind |-> "result", value]                                            *)
(*   [kind |-> "OpenAIError", status_code]   status_code None: no such     *)
(*                                           attribute                     *)
(*   [kind |-> "RemoteProtocolError"], [kind |-> "JSONDecodeError"],       *)
(*   [kind |-> "Exception"]                  any other exception           *)
(* The state of one activation is kept in `last`:                          *)
(*   [pc, sleep_time, outcomes, slept, result]                             *)
(* outcomes are the ends of the calls made so far, slept the arguments of  *)
(* asyncio.sleep so far.                                                   *)
(***************************************************************************)
MaxCalls == 4

FIRST_SLEEP == 60

ChatOutcomes ==
    {[kind |-> "result", value |-> v] : v \in {None, 1, 2}}
        \cup {[kind |-> "OpenAIError", status_code |-> c] : c \in {None, 400, 429, 500}}
        \cup {[kind |-> "RemoteProtocolError"], [kind |-> "JSONDecodeError"],
              [kind |-> "Exception"]}

\* the handlers that go to bin_backoff_sleep
Retried(o) ==
    \/ o.kind = "OpenAIError" /\ o.status_code = 500
    \/ o.kind \in {"RemoteProtocolError", "JSONDecodeError"}

\* the sleep time is kept
SameSleep(sleep_time) == sleep_time

\* sleep_time *= 2
NextSleep(sleep_time) == sleep_time * 2

InitRetry ==
    /\ heap = <<>> /\ spent = {} /\ mres = Idle /\ ws = Idle /\ nc = Idle /\ ec = Idle
    /\ rp = Idle
    /\ last = [pc |-> "call", sleep_time |-> FIRST_SLEEP, outcomes |-> <<>>,
               slept |-> <<>>, result |-> None]

othersOfRetry == <<heap, spent, mres, ws, nc, ec, rp>>

\* `return await chat()` and the except clauses up to the start of the sleep
RetryCall(o) ==
    /\ last.pc = "call"
    /\ Len(last.outcomes) < MaxCalls
    /\ last' = [last EXCEPT
          !.outcomes = Append(@, o),
          !.pc = IF o.kind = "result" THEN "returned"
                 ELSE IF Retried(o) THEN "sleeping" ELSE "raised",
          !.result = IF o.kind = "result" THEN o.value ELSE @,
          !.slept = IF Retried(o) THEN Append(@, last.sleep_time) ELSE @]
    /\ UNCHANGED othersOfRetry

\* asyncio.sleep returns: the end of bin_backoff_sleep, and `continue`
RetrySleepOver ==
    /\ last.pc = "sleeping"
    /\ last' = [last EXCEPT !.pc = "call", !.sleep_time = NextSleep(@)]
    /\ UNCHANGED othersOfRetry

NextRetry ==
    \/ \E o \in ChatOutcomes : RetryCall(o)
    \/ RetrySleepOver

SpecRetry == InitRetry /\ [][NextRetry]_vars

(***************************************************************************)
(* Claims about retry_forever (SpecRetry).                                 *)
(***************************************************************************)
RECURSIVE Pow2(_)
Pow2(n) == IF n = 0 THEN 1 ELSE 2 * Pow2(n - 1)

\* the claim's list of failures that are retried
Transient(o) ==
    o \in {[kind |-> "OpenAIError", status_code |-> 500],
           [kind |-> "RemoteProtocolError"], [kind |-> "JSONDecodeError"]}

\* C25: retry_forever returns the result of the first call that succeeds;
\* after an API error of status 500, a RemoteProtocolError or a JSON decode
\* error it sleeps and calls again, however many calls failed before, the
\* i-th sleep lasting 60 * 2^(i-1) seconds; any other API error is raised at
\* once, with no further call.
C25_RetryForever ==
    /\ [](LET n == Len(last.outcomes)
              failed == {i \in 1..n : last.outcomes[i].kind # "result"}
          IN /\ \A i \in 1..(n - 1) : Transient(last.outcomes[i])
             /\ last.pc = "returned" <=> (n > 0 /\ last.outcomes[n].kind = "result")
             /\ last.pc = "returned" => last.result = last.outcomes[n].value
             /\ last.pc = "raised" <=> (n > 0 /\ n \in failed /\ ~Transient(last.outcomes[n]))
             /\ last.pc \in {"sleeping", "call"} <=> (n = 0 \/ Transient(last.outcomes[n]))
             /\ last.pc = "sleeping" => n > 0
             /\ last.pc = "call" => Len(last.slept) = n
             /\ Len(last.slept) = Cardinality({i \in failed : Transient(last.outcomes[i])})
             /\ \A i \in DOMAIN last.slept : last.slept[i] = FIRST_SLEEP * Pow2(i - 1))
    /\ [][/\ last.pc = "sleeping" => last'.pc = "call"
          /\ last.pc \in {"returned", "raised"} => last'.outcomes = last.outcomes]_vars

\* a call succeeds after three failures of the three retried kinds
C25_Witness ==
    /\ last.pc = "returned" /\ Len(last.outcomes) = 4
    /\ {last.outcomes[i].kind : i \in 1..3}
           = {"OpenAIError", "RemoteProtocolError", "JSONDecodeError"}
    /\ last.slept = <<60, 120, 240>>

\* an API error of another status is raised after a retried failure
C25_RaisedWitness ==
    /\ last.pc = "raised" /\ Len(last.outcomes) = 2
    /\ last.outcomes[2] = [kind |-> "OpenAIError", status_code |-> 429]

(***************************************************************************)
(* NodeCentricWorkspace (core/transpilation_workspace.py).  The RustCode   *)
(* _use_decls is the Piece ProgramRoot; _segment_results is the list of    *)
(* its <<segment, RustCode>> items in insertion order.                     *)
(***************************************************************************)
RECURSIVE DescOf(_, _)
\* p.text as the description a parser reads from it
DescOf(h, p) ==
    [kind |-> h[p].kind, name |-> h[p].name, body |-> h[p].body, last |-> h[p].last,
     comm |-> h[p].comm, attr |-> h[p].attr,
     items |-> IF IsExtendable(h[p].kind)
               THEN [i \in DOMAIN Items(h, p) |-> DescOf(h, Items(h, p)[i])]
               ELSE <<>>]

\* the kinds whose text the parser reads as an item at the top level of a text
\* (the text of a field, of an enum variant or of an identifier of an import
\* is none)
IsTopLevelItem(k) == k \notin {"field", "variant", "useid"}

\* what Extracter.extract reads from "\n".join(p.text for p in pieces): the
\* items in the order of the pieces; a comment line on the first line of the
\* text is not recognised (its start line is not after last_end_line = 0), the
\* comment lines after it are
Reparsed(h, pieces) ==
    SelectSeq([i \in DOMAIN pieces |->
                  [DescOf(h, pieces[i]) EXCEPT
                      !.comm = IF i = 1 /\ @ # <<>> THEN Tail(@) ELSE @]],
              LAMBDA d : IsTopLevelItem(d.kind))

RECURSIVE StoreResults(_, _, _)
\* the loop over match.items():
\* _segment_results[segment] = RustCode.from_text("\n".join(p.text for p in pieces))
StoreResults(st, match, k) ==
    IF k > Len(match) THEN st
    ELSE LET segment == match[k][1]
             at == {i \in DOMAIN st.segment_results : st.segment_results[i][1] = segment}
             Stored(parsed) ==
                 [heap |-> parsed.heap,
                  segment_results |->
                     IF at = {} THEN Append(st.segment_results, <<segment, parsed.root>>)
                     ELSE [st.segment_results EXCEPT ![CHOOSE i \in at : TRUE] =
                              <<segment, parsed.root>>]]
         IN StoreResults(Stored(FromText(st.heap, Reparsed(st.heap, match[k][2]))),
                         match, k + 1)

RECURSIVE AddUseDecls(_, _)
\* for p in rust_code.items: if isinstance(p, RustUse): self._use_decls.add(p)
AddUseDecls(h, its) ==
    IF its = <<>> THEN h
    ELSE AddUseDecls(IF h[Head(its)].kind = "use" THEN Add(h, ProgramRoot, Head(its)).heap
                     ELSE h,
                     Tail(its))

\* the iteration order of a batch: the order of the units restricted to it
OrderIn(order, units) == SelectSeq(order, LAMBDA u : u \in units)

\* NodeCentricWorkspace.push; batch is [none |-> TRUE] for None and
\* [none |-> FALSE, units |-> S] for a collection of units
NodeWorkspacePush(h, w, batch, text) ==
    LET Used(r, st) ==
            [heap |-> AddUseDecls(st.heap, Items(st.heap, r.code)),
             segment_results |-> st.segment_results, called |-> TRUE]
        Matched(r) ==
            Used(r, StoreResults([heap |-> r.heap, segment_results |-> w.segment_results],
                                 r.match, 1))
    IN IF batch.none \/ batch.units = {}
       THEN [heap |-> h, segment_results |-> w.segment_results, called |-> FALSE]
       ELSE Matched(TryToMatch(h, [u \in batch.units |-> w.segments[u]],
                               OrderIn(w.order, batch.units), text))

RECURSIVE MergeResults(_, _, _)
\* for code in _segment_results.values(): all_code.merge_in(code.copy())
MergeResults(h, all_code, results) ==
    IF results = <<>> THEN h
    ELSE LET Merged(c) == MergeIn(c.heap, all_code, c.id).heap
         IN MergeResults(Merged(Copy(h, Head(results)[2])), all_code, Tail(results))

\* NodeCentricWorkspace.trans_result: the heap that holds all_code, and all_code
NodeTransResult(h, w) ==
    LET Result(c) == [heap |-> MergeResults(c.heap, c.id, w.segment_results), root |-> c.id]
    IN Result(Copy(h, ProgramRoot))

(***************************************************************************)
(* SpecNodePush: a node-centric workspace over the source units receives   *)
(* generated texts for batches of units.                                   *)
(***************************************************************************)
NodePushPool == {R_fn_ab, [R_fn_ab EXCEPT !.comm = CommentOf(1)],
                 [R_fn_ab EXCEPT !.comm = CommentOf(2), !.attr = 1],
                 R_impl_T, R_struct_S, R_use_q}

InitNodePush ==
    /\ heap = << MkPiece("code", <<>>, 0, <<>>) >>
    /\ spent = {}
    /\ last = [op |-> "none"]
    /\ mres = Idle
    /\ \E segments \in [Units -> PushSegmentTexts], order \in Perms(Units) :
          ws = [segments |-> segments, order |-> order, segment_results |-> <<>>,
                pushes |-> 0]
    /\ nc = Idle /\ ec = Idle /\ rp = Idle

\* workspace.push(batch, text)
NodePush(batch, text) ==
    /\ ws.pushes < MaxPushes
    /\ \E r \in {NodeWorkspacePush(heap, ws, batch, text)} :
          /\ heap' = r.heap
          /\ ws' = [ws EXCEPT !.segment_results = r.segment_results, !.pushes = @ + 1]
    /\ last' = [op |-> "push", none |-> batch.none, text |-> text, pre |-> heap]
    /\ UNCHANGED <<spent, mres, nc, ec, rp>>

NextNodePush ==
    \E batch \in {[none |-> TRUE]} \cup {[none |-> FALSE, units |-> S] : S \in SUBSET Units},
       text \in Texts(NodePushPool, MaxTextItems) :
        NodePush(batch, text)

SpecNodePush == InitNodePush /\ [][NextNodePush]_vars

(***************************************************************************)
(* Claims about push(None, text) (SpecNodePush).                           *)
(***************************************************************************)
\* the texts of the Pieces of the pushed text that match a unit of the
\* workspace
MatchingTexts ==
    LET Of(r) == {Text(r.heap, p) :
                    p \in UNION {Range(r.match[i][2]) : i \in DOMAIN r.match}}
    IN Of(TryToMatch(last.pre, ws.segments, ws.order, last.text))

\* the texts of the Pieces in the text trans_result returns
ProgramTexts ==
    LET Of(r) == {Text(r.heap, p) : p \in Descendants(r.heap, r.root)}
    IN Of(NodeTransResult(heap, ws))

\* C26: after push(None, text) the program text of the node-centric
\* workspace includes every Piece of text that matches a unit of the
\* workspace.
C26_PushNoneMergesAll ==
    (last.op = "push" /\ last.none) => MatchingTexts \subseteq ProgramTexts

(***************************************************************************)
(* SpecProject: _synthesize_rust of the edge-centric engine on a small     *)
(* project, with the matcher and the workspace.  A task receives some      *)
(* generated text, matches it, adds Relations for the matched units whose  *)
(* interface changed (interface_equal is not modelled: any set of matched  *)
(* units may have changed), and pushes the text.  The task matches with    *)
(* the matcher _synthesize_rust builds from all_segments (ec.order is the  *)
(* order this matcher iterates the units in), the push with the matcher of *)
(* the workspace, built from set(segments) (ws.order).  _choose_to_trans   *)
(* sleeps while no Relation can be picked; the tasks run while it sleeps   *)
(* and in asyncio.wait.  last.batches lists the submitted batches,         *)
(* last.text is the text of the task that finished last.                   *)
(***************************************************************************)
ProjectUnits == 2       \* most source units of a project

\* a project: units 1..n that do not use themselves
ProjectGraphs ==
    UNION {{use \in [1..n -> SUBSET (1..n)] : \A u \in 1..n : u \notin use[u]} :
              n \in 1..ProjectUnits}

ProjectSegmentTexts == { <<C_ab>>, <<C_S, C_x>> }

\* a project of three units: the first uses the second and the second the
\* third; the first and the third unit declare the same function
ChainGraph == << {2}, {3}, {} >>
ChainSegments == << <<C_ab>>, <<C_S, C_x>>, <<C_ab>> >>

\* the source texts of the units of a project
ProjectSegments(use) ==
    IF use = ChainGraph THEN {ChainSegments} ELSE [DOMAIN use -> ProjectSegmentTexts]

ProjectPool == {R_fn_ab, R_fn_a_b, R_struct_S}

InitProject ==
    /\ heap = << MkPiece("code", <<>>, 0, <<>>) >>
    /\ spent = {} /\ mres = Idle /\ nc = Idle /\ rp = Idle
    /\ last = [op |-> "none", batches |-> <<>>, text |-> <<>>]
    /\ \E use \in ProjectGraphs \cup {ChainGraph},
          limit \in 1..MaxTokens, max_retry \in 0..MaxRetryBound :
       \E all_segments \in Perms(DOMAIN use) :
          /\ ec = [use |-> use, max_source_tokens |-> limit, max_retry |-> max_retry,
                   pc |-> "loop",
                   relations |-> InitialRelations(use),
                   relation_try_count |-> [r \in (DOMAIN use) \X (DOMAIN use) |-> 0],
                   in_synthesis |-> {},
                   segment_timestamp |-> [u \in DOMAIN use |-> 0],
                   clock |-> 0,
                   tasks |-> <<>>,
                   order |-> all_segments]
          /\ \E segments \in ProjectSegments(use), order \in Perms(DOMAIN use) :
                ws = [segments |-> segments, order |-> order,
                      seg_to_pieces |-> [u \in DOMAIN use |-> <<>>],
                      seg_of_pieces |-> <<>>]

othersOfProject == <<spent, mres, nc, rp>>

\* _choose_to_trans returns a batch; the loop of _synthesize_rust claims the
\* Relations inside the batch and creates the task
ProjectChoose ==
    /\ ec.pc = "loop"
    /\ ec.relations # {}
    /\ \E picked \in PickRandomly(ec, ec.in_synthesis) :
          \E segments \in ChooseToTrans(ec, picked) :
             /\ ec' = Claim(ec, segments)
             /\ last' = [last EXCEPT !.op = "choose", !.batches = Append(@, segments)]
    /\ UNCHANGED <<heap, ws, othersOfProject>>

\* _choose_to_trans finds no Relation to pick and sleeps
ProjectSleep ==
    /\ ec.pc = "loop"
    /\ ec.relations # {}
    /\ PickRandomly(ec, ec.in_synthesis) = {}
    /\ ec' = [ec EXCEPT !.pc = "sleeping"]
    /\ UNCHANGED <<heap, ws, last, othersOfProject>>

\* the sleep is over
ProjectWake ==
    /\ ec.pc = "sleeping"
    /\ ec' = [ec EXCEPT !.pc = "loop"]
    /\ UNCHANGED <<heap, ws, last, othersOfProject>>

\* _translate_order ends: no Relation is pending
ProjectExit ==
    /\ ec.pc = "loop"
    /\ ec.relations = {}
    /\ ec' = [ec EXCEPT !.pc = "waiting"]
    /\ UNCHANGED <<heap, ws, last, othersOfProject>>

\* synthesize_for_segments runs to its end on the generated text
ProjectTaskFinish(i, text) ==
    /\ ec.pc \in {"sleeping", "waiting"}
    /\ i \in DOMAIN ec.tasks
    /\ \E m \in {TryToMatch(heap, ws.segments, ec.order, text).match} :
          \E changed \in SUBSET {m[k][1] : k \in DOMAIN m} :
             ec' = Complete(ec, i, changed)
    /\ \E r \in WorkspacePush(heap, ws, [none |-> FALSE, units |-> ec.tasks[i]], text) :
          /\ heap' = r.heap
          /\ ws' = [ws EXCEPT !.seg_to_pieces = r.seg_to_pieces,
                               !.seg_of_pieces = r.seg_of_pieces]
    /\ last' = [last EXCEPT !.op = "finish", !.text = text]
    /\ UNCHANGED othersOfProject

\* asyncio.wait(tasks) returns, and with it _synthesize_rust
ProjectReturn ==
    /\ ec.pc = "waiting" /\ ec.tasks = <<>>
    /\ ec' = [ec EXCEPT !.pc = "done"]
    /\ UNCHANGED <<heap, ws, last, othersOfProject>>

NextProject ==
    \/ ProjectChoose
    \/ ProjectSleep
    \/ ProjectWake
    \/ ProjectExit
    \/ \E i \in DOMAIN ec.tasks, text \in Texts(ProjectPool, MaxTextItems) :
          ProjectTaskFinish(i, text)
    \/ ProjectReturn

SpecProject == InitProject /\ [][NextProject]_vars

(***************************************************************************)
(* Claims about the edge-centric synthesis of a project (SpecProject).     *)
(***************************************************************************)
\* the project has one unit, which declares a function, and the generated
\* text was one function of exactly that name
SoloExactFunction ==
    /\ DOMAIN ec.use = {1}
    /\ Len(last.text) = 1 /\ last.text[1].kind = "fn"
    /\ \E i \in DOMAIN ws.segments[1] :
          /\ ws.segments[1][i].kind = "CFunction"
          /\ ws.segments[1][i].name = last.text[1].name

\* trans_result of the workspace as the parsed items of the program text
ProgramItems == [i \in DOMAIN Items(heap, ProgramRoot) |-> DescOf(heap, Items(heap, ProgramRoot)[i])]

\* C27: when the synthesis has ended every unit, a unit without use/used
\* edges included, was in a submitted batch; for a project of one unit and a
\* generated text that is one function of the unit's exact name, one batch
\* with the unit was submitted and the program text is that function.
C27_EveryUnitSubmitted ==
    ec.pc \in {"waiting", "done"} =>
        /\ \A u \in DOMAIN ec.use : \E i \in DOMAIN last.batches : u \in last.batches[i]
        /\ (ec.pc = "done" /\ SoloExactFunction) =>
              /\ last.batches = << {1} >>
              /\ Len(ProgramItems) = 1
              /\ ProgramItems[1].kind = "fn" /\ ProgramItems[1].name = last.text[1].name
              /\ ProgramItems[1].body = last.text[1].body

\* the synthesis of a one-unit project ended with the function in the program
C27_Witness ==
    /\ ec.pc = "done" /\ SoloExactFunction
    /\ Len(ProgramItems) = 1

\* the synthesis of a project of two units without edges ended
C27_IsolatedWitness ==
    /\ ec.pc = "done" /\ DOMAIN ec.use = {1, 2}
    /\ \A u \in {1, 2} : ec.use[u] = {}
    /\ Len(last.batches) = 2

(***************************************************************************)
(* SpecTarget: match_piece is called for one source piece on the items of  *)
(* a parsed text, as _match does for every source piece.  The state of the *)
(* call is kept in mres: [cp, text, called, code, result].                 *)
(***************************************************************************)
N_ab == <<"a", "b">>
N_Ab == <<"A", "b">>

C_enum_AB  == [MkCPiece("CEnum", <<>>, 1) EXCEPT !.enumerator_names = << <<"A">>, <<"B">> >>]
C_enum_E   == [MkCPiece("CEnum", <<"E">>, 1) EXCEPT !.enumerator_names = << <<"A">>, <<"B">> >>]
C_enum_Q   == [MkCPiece("CEnum", <<"Q">>, 1) EXCEPT !.enumerator_names = << <<"A">>, <<"B">> >>]
C_struct_ab == MkCPiece("CStruct", N_ab, 1)
\* typedef int ab;  typedef struct { .. } ab;  typedef enum { A, B } ab;
\* typedef int ab, Ab;  int ab, a();
C_typedef_ab == MkCPiece("CTypedef", N_ab, 1)
C_typedef_struct_ab ==
    [MkCPiece("CTypedef", N_ab, 1) EXCEPT !.body_piece = <<MkCPiece("CStruct", <<>>, 1)>>]
C_typedef_enum_ab == [MkCPiece("CTypedef", N_ab, 1) EXCEPT !.body_piece = <<C_enum_AB>>]
C_typedefs == [MkCPiece("CMultipleTypedef", <<>>, 1) EXCEPT !.names = <<N_ab, N_Ab>>]
C_decls == [MkCPiece("CMultipleDeclaration", <<>>, 1) EXCEPT
               !.names = <<N_ab, N_a>>, !.is_funcs = <<FALSE, TRUE>>]

\* the source pieces
TargetSources == {C_ab, C_struct_ab, C_enum_AB, C_enum_E, C_enum_Q,
                  C_typedef_ab, C_typedef_struct_ab, C_typedef_enum_ab, C_typedefs, C_decls}

R_fn_Ab     == MkDesc("fn", N_Ab, 1, <<>>, <<>>)
R_struct_ab == MkDesc("struct", N_ab, 0, <<>>, <<>>)
R_struct_Ab == MkDesc("struct", N_Ab, 0, <<>>, <<>>)
R_impl_T_ab == MkDesc("impl", ImplName(N_T), 0, N_T, << MkDesc("fn", N_ab, 1, <<>>, <<>>) >>)
R_enum_E_ab == MkDesc("enum", <<"E">>, 0, <<>>,
                      << MkDesc("variant", N_a, 1, <<>>, <<>>),
                         MkDesc("variant", N_b, 1, <<>>, <<>>) >>)
R_enum_S_ab == MkDesc("enum", <<"S">>, 0, <<>>,
                      << MkDesc("variant", N_b, 1, <<>>, <<>>),
                         MkDesc("variant", N_a, 1, <<>>, <<>>) >>)
R_enum_X_a  == MkDesc("enum", <<"X">>, 0, <<>>, << MkDesc("variant", N_a, 1, <<>>, <<>>) >>)
R_enum_e_a  == MkDesc("enum", <<"e">>, 0, <<>>, << MkDesc("variant", N_a, 1, <<>>, <<>>) >>)

R_type_ab   == MkDesc("type", N_ab, 1, <<>>, <<>>)
R_type_Ab   == MkDesc("type", N_Ab, 1, <<>>, <<>>)
R_static_ab == MkDesc("static", N_ab, 1, <<>>, <<>>)
R_fnsig_a   == MkDesc("fnsig", N_a, 1, <<>>, <<>>)

\* the items of the generated texts
TargetPool == {R_fn_ab, R_fn_Ab, R_fn_a_b, R_struct_ab, R_struct_Ab, R_impl_T_ab,
               R_enum_E_ab, R_enum_S_ab, R_enum_X_a, R_enum_e_a,
               R_type_ab, R_type_Ab, R_static_ab, R_fnsig_a}

InitTarget ==
    /\ heap = <<>>
    /\ spent = {}
    /\ last = Idle
    /\ \E cp \in TargetSources, text \in Texts(TargetPool, MaxTextItems) :
          mres = [cp |-> cp, text |-> text, called |-> FALSE, code |-> None,
                  result |-> <<>>]
    /\ ws = Idle /\ nc = Idle /\ ec = Idle /\ rp = Idle

\* rust_code = RustCode.from_text(result); rust_code.normalize();
\* self.match_piece(cp, rust_code.items)
CallMatchPiece ==
    /\ ~mres.called
    /\ \E parsed \in {FromText(<<>>, mres.text)} :
          \E h \in {Normalize(parsed.heap, parsed.root)} :
             /\ heap' = h
             /\ mres' = [mres EXCEPT !.called = TRUE, !.code = parsed.root,
                                     !.result = MatchPiece(h, mres.cp, Items(h, parsed.root))]
    /\ UNCHANGED <<spent, last, ws, nc, ec, rp>>

NextTarget == CallMatchPiece

SpecTarget == InitTarget /\ [][NextTarget]_vars

(***************************************************************************)
(* Claims about match_piece (SpecTarget).                                  *)
(***************************************************************************)
\* the top-level targets of a kind compatible with the source piece
Compatible == {p \in Range(Items(heap, mres.code)) : heap[p].kind \in CounterKinds(mres.cp.kind)}

\* the compatible targets with exactly the name of the source piece
ExactNamed == {p \in Compatible : heap[p].name = mres.cp.name}

\* the compatible targets whose name is the source name up to case and
\* separators
FoldNamed ==
    {p \in Compatible : mres.cp.name # <<>> /\
        StrLower(SelectSeq(heap[p].name, LAMBDA ch : ~IsSep(ch)))
            = StrLower(SelectSeq(mres.cp.name, LAMBDA ch : ~IsSep(ch)))}

\* the methods of the impl blocks named as the source piece, alone or after
\* the name of their type
MethodNamed ==
    {m \in UNION {Range(Items(heap, p)) :
                    p \in {q \in Range(Items(heap, mres.code)) : heap[q].kind = "impl"}} :
        \/ heap[m].name = mres.cp.name
        \/ StrLower(heap[heap[m].parent].last \o heap[m].name)
              = StrLower(SelectSeq(mres.cp.name, LAMBDA ch : ~IsSep(ch)))}

\* the target kinds that stand for a source piece: those of its own kind and,
\* for a typedef with a body, those of the kind of the body
CounterKindsOf(cp) ==
    CounterKinds(cp.kind)
    \cup (IF cp.body_piece = <<>> THEN {} ELSE CounterKinds(cp.body_piece[1].kind))

\* the names are equal up to case and separators
FoldEqual(n1, n2) ==
    StrLower(SelectSeq(n1, LAMBDA ch : ~IsSep(ch))) = StrLower(SelectSeq(n2, LAMBDA ch : ~IsSep(ch)))

\* the top-level targets of a kind that stands for the source piece, with
\* exactly its name and with its name up to case and separators
ExactOfAny ==
    {p \in Range(Items(heap, mres.code)) :
        heap[p].kind \in CounterKindsOf(mres.cp) /\ heap[p].name = mres.cp.name}
FoldOfAny ==
    {p \in Range(Items(heap, mres.code)) :
        /\ heap[p].kind \in CounterKindsOf(mres.cp)
        /\ mres.cp.name # <<>> /\ FoldEqual(heap[p].name, mres.cp.name)}

TypedefOfStruct ==
    /\ mres.cp.kind = "CTypedef" /\ mres.cp.body_piece # <<>>
    /\ mres.cp.body_piece[1].kind = "CStruct" /\ mres.cp.body_piece[1].name = <<>>

\* the target structs whose name is the source name up to case and separators
StructNamed ==
    {p \in Range(Items(heap, mres.code)) :
        heap[p].kind = "struct" /\ FoldEqual(heap[p].name, mres.cp.name)}

C28_TypedefWitness ==
    /\ mres.called /\ mres.cp = C_typedef_struct_ab
    /\ mres.text = <<R_type_ab, R_struct_Ab>>
    /\ Len(mres.result) = 1 /\ heap[mres.result[1]].kind = "struct"

C28_FoldWitness ==
    /\ mres.called /\ mres.cp = C_ab
    /\ mres.text = <<R_fn_Ab>>
    /\ Len(mres.result) = 1 /\ heap[mres.result[1]].name = N_Ab

\* the target enums whose lowercased member names are those of the source enum
SameMembers ==
    {p \in Compatible :
        {StrLower(heap[i].name) : i \in Range(Items(heap, p))}
            = {StrLower(n) : n \in Range(mres.cp.enumerator_names)}}

\* C29: a source enum is matched to a target enum of its name (exactly or up
\* to case and separators) when there is one; a source enum without a name,
\* or whose name matches no target enum, is matched to a target enum with the
\* same set of lowercased member names when there is one, and to no target
\* enum otherwise.
C29_EnumByMembers ==
    (mres.called /\ mres.cp.kind = "CEnum") =>
        /\ FoldNamed # {} => (Len(mres.result) = 1 /\ mres.result[1] \in FoldNamed)
        /\ (FoldNamed = {} /\ SameMembers # {}) =>
              (Len(mres.result) = 1 /\ mres.result[1] \in SameMembers)
        /\ (FoldNamed = {} /\ SameMembers = {}) =>
              \A i \in DOMAIN mres.result : heap[mres.result[i]].kind # "enum"

\* the unnamed enum {A, B} was matched to the second target enum, whose
\* members are b and a; the first target enum has the member a only
C29_Witness ==
    /\ mres.called /\ mres.cp = C_enum_AB
    /\ mres.text = <<R_enum_X_a, R_enum_S_ab>>
    /\ Len(mres.result) = 1 /\ heap[mres.result[1]].name = <<"S">>

\* the enum E was matched to the target enum e by its name although another
\* target enum has its members
C29_NameFirstWitness ==
    /\ mres.called /\ mres.cp = C_enum_E
    /\ mres.text = <<R_enum_S_ab, R_enum_e_a>>
    /\ Len(mres.result) = 1 /\ heap[mres.result[1]].name = <<"e">>

(***************************************************************************)
(* Claims about remove (SpecPiece).                                        *)
(***************************************************************************)
RECURSIVE AncestorsOf(_, _)
\* the containers above a Piece along the parent links, nearest first
AncestorsOf(h, p) ==
    IF h[p].parent = None THEN <<>> ELSE <<h[p].parent>> \o AncestorsOf(h, h[p].parent)

\* C31: remove(piece) on its container leaves piece without a parent and out
\* of the container's children; every container of the ancestor chain that
\* the removal left without children is detached from its own parent, and
\* every one that still has children is attached as before.
C31_RemoveCascades ==
    last.op = "remove" =>
        /\ heap[last.item].parent = None
        /\ last.item \notin Range(heap[last.c].items)
        /\ \A a \in Range(AncestorsOf(last.pre, last.item)) :
              last.pre[a].parent # None =>
                 IF heap[a].items = <<>>
                 THEN /\ heap[a].parent = None
                      /\ a \notin Range(heap[last.pre[a].parent].items)
                 ELSE /\ heap[a].parent = last.pre[a].parent
                      /\ a \in Range(heap[last.pre[a].parent].items)

\* the only method of an impl block was removed and the emptied block left
\* the program, which still holds other items
C31_Witness ==
    /\ last.op = "remove"
    /\ last.pre[last.c].kind = "impl" /\ last.pre[last.c].parent = ProgramRoot
    /\ last.pre[last.c].items = <<last.item>>
    /\ heap[last.c].parent = None
    /\ last.c \notin Range(heap[ProgramRoot].items)
    /\ heap[ProgramRoot].items # <<>>

\* one of two methods of an impl block was removed and the block stayed
C31_KeptWitness ==
    /\ last.op = "remove"
    /\ last.pre[last.c].kind = "impl" /\ Len(last.pre[last.c].items) = 2
    /\ heap[last.c].parent = ProgramRoot
    /\ last.c \in Range(heap[ProgramRoot].items)


(***************************************************************************)
(* SpecVote: one call of EdgeCentricEngine._choose_to_trans in the middle  *)
(* of a synthesis: some Relations were claimed by earlier batches and some *)
(* units have the completion time of an earlier task.  The steps are those *)
(* of SpecChoose.                                                          *)
(***************************************************************************)
MaxStamp == 1           \* latest completion time of a unit (0: never completed)

InitVote ==
    /\ heap = <<>> /\ spent = {} /\ mres = Idle /\ ws = Idle /\ nc = Idle /\ rp = Idle
    /\ last = [op |-> "none"]
    /\ \E use \in ChooseGraphs, limit \in {ChooseUnits - 1, ChooseUnits},
          stamp \in [1..ChooseUnits -> 0..MaxStamp] :
       \E relations \in SUBSET InitialRelations(use) :
          /\ relations # {}
          /\ ec = [use |-> use, max_source_tokens |-> limit,
                   token_num |-> [u \in 1..ChooseUnits |-> 1],
                   relations |-> relations,
                   in_synthesis |-> {},
                   segment_timestamp |-> stamp,
                   pc |-> "pick", picked |-> <<>>,
                   chosen |-> {}, candidates |-> {}, out_sizes |-> {}]

SpecVote == InitVote /\ [][NextChoose]_vars

\* the candidate the step from ec to ec' took out of the candidates
Considered == ec.candidates \ ec'.candidates

\* the candidates with the highest vote, when one has a vote at all
TopVoted ==
    {c \in VoteOfCandidates(ec, ec.chosen, ec.candidates) :
        \A d \in ec.candidates : Vote(ec, ec.chosen, d) <= Vote(ec, ec.chosen, c)}

\* the most recently completed units of a set
MostRecent(S) ==
    {c \in S : \A d \in S : ec.segment_timestamp[d] <= ec.segment_timestamp[c]}

\* C32 as stated: the candidate considered next has the highest positive vote
\* and, among the candidates of that vote, the most recent completion time;
\* when no candidate has a positive vote it has the most recent completion
\* time of all candidates.
C32_BestVoteThenMostRecent ==
    [][(ec.pc = "grow" /\ ec.candidates # {}) =>
          Considered \subseteq
             (IF TopVoted # {} THEN MostRecent(TopVoted) ELSE MostRecent(ec.candidates))]_vars

\* C32 amended: the candidate considered next is any candidate of the highest
\* positive vote, whatever its completion time; when no candidate has a
\* positive vote it has the most recent completion time of all candidates.
C32_BestVoteElseMostRecent ==
    [][(ec.pc = "grow" /\ ec.candidates # {}) =>
          /\ Cardinality(Considered) = 1
          /\ Considered \subseteq
                (IF TopVoted # {} THEN TopVoted ELSE MostRecent(ec.candidates))]_vars

\* a candidate joined the batch that had the highest vote together with a
\* more recently completed candidate
C32_Witness ==
    /\ last.op = "consider" /\ ~last.rejected
    /\ last.new_chosen \in ec.chosen \ SeedPair
    /\ \E d \in ec.candidates \ SeedPair :
          /\ ec.segment_timestamp[d] > ec.segment_timestamp[last.new_chosen]
          /\ Vote(ec, ec.chosen \ {last.new_chosen}, d)
                = Vote(ec, ec.chosen \ {last.new_chosen}, last.new_chosen)
          /\ Vote(ec, ec.chosen \ {last.new_chosen}, d) > 0

\* a candidate without a vote joined the batch while an earlier completed
\* candidate without a vote was left
C32_NoVoteWitness ==
    /\ last.op = "consider" /\ ~last.rejected
    /\ last.new_chosen \notin SeedPair
    /\ Vote(ec, ec.chosen \ {last.new_chosen}, last.new_chosen) = 0
    /\ \E d \in ec.candidates \ SeedPair :
          /\ ec.segment_timestamp[d] < ec.segment_timestamp[last.new_chosen]
          /\ d \in GetSurrounding(ec, ec.picked[1]) \cup GetSurrounding(ec, ec.picked[2])


(***************************************************************************)
(* Termination of the edge-centric synthesis phase (SpecEdge).  The        *)
(* generator calls return: a task in flight can always run to its end.     *)
(***************************************************************************)
\* the batches a Relation may still be claimed by, summed over the Relations
ClaimsLeft(e) ==
    SumOver([r \in Segments \X Segments |->
                (IF e.max_retry > 1 THEN e.max_retry ELSE 1) - e.relation_try_count[r]],
            Segments \X Segments)

\* the step from ec to ec' is one pass of the loop of _synthesize_rust
BatchYielded == Len(ec'.tasks) > Len(ec.tasks)

\* C33: the synthesis phase terminates.  The units in synthesis are those of
\* the tasks in flight, so once the tasks have finished every pending
\* Relation can be picked; the loop of _choose_to_trans ends with a batch for
\* every Relation it may pick; every yielded batch claims a pending Relation
\* inside it and uses up one of the finitely many claims that are left,
\* which no other step gives back.
C33_SynthesisTerminates ==
    /\ [](/\ ec.in_synthesis = UNION Range(ec.tasks)
          /\ ClaimsLeft(ec) >= 0
          /\ (ec.pc \in {"loop", "sleeping"} /\ ec.relations # {} /\ ec.tasks = <<>>)
                => PickRandomly(ec, ec.in_synthesis) = ec.relations
          /\ ec.pc = "loop" =>
                \A picked \in PickRandomly(ec, ec.in_synthesis) :
                    ChooseToTrans(ec, picked) # {}
          /\ ec.pc = "waiting" => ec.tasks # <<>> \/ ENABLED EdgeReturn)
    /\ [][/\ BatchYielded =>
                /\ ClaimsLeft(ec') < ClaimsLeft(ec)
                /\ \E r \in ec.relations \ ec'.relations :
                      {r[1], r[2]} \subseteq ec'.tasks[Len(ec'.tasks)]
          /\ ~BatchYielded => ClaimsLeft(ec') = ClaimsLeft(ec)
          /\ ec.pc = "done" => ec' = ec]_vars

\* a task has finished; a Relation that was pending with a unit of its batch,
\* and could not be picked for it, can be picked now
C33_Witness ==
    /\ last.op = "finish"
    /\ ec.pc = "sleeping"
    /\ \E r \in PickRandomly(ec, ec.in_synthesis) :
          /\ {r[1], r[2]} \cap last.segments # {}
          /\ r \notin last.to_add

\* the phase has ended after a Relation was claimed max_retry = 2 times
C33_RetriedWitness ==
    /\ ec.pc = "done" /\ ec.max_retry = 2
    /\ \E r \in Segments \X Segments : ec.relation_try_count[r] = 2

\* the phase has ended with max_retry = 0
C33_NoRetryWitness ==
    /\ ec.pc = "done" /\ ec.max_retry = 0
    /\ \E r \in Segments \X Segments : ec.relation_try_count[r] = 1


(***************************************************************************)
(* SpecFail: the synthesis phase of either engine with tasks that may end  *)
(* with an exception.  Neither task body has an exception handler          *)
(* (synthesize_for_segments of _synthesize_rust, _transpile_segments), and *)
(* asyncio.wait does not re-raise: a failed task is done without having    *)
(* run the statements after the failing call.                              *)
(***************************************************************************)
InitFail ==
    \/ InitEdge /\ ec.max_retry = 1
    \/ InitNode

\* an edge-centric task ends with an exception of the generator call
EdgeTaskFail(i) ==
    /\ ec.pc \in {"sleeping", "waiting"}
    /\ i \in DOMAIN ec.tasks
    /\ ec' = [ec EXCEPT !.tasks = SubSeq(@, 1, i - 1) \o SubSeq(@, i + 1, Len(@))]
    /\ last' = [op |-> "fail", segments |-> ec.tasks[i]]
    /\ UNCHANGED othersOfEdge

\* a node-centric task ends with an exception of the generator call
NodeTaskFail(batch) ==
    /\ nc.pc \in {"sleeping", "waiting"}
    /\ batch \in nc.tasks
    /\ nc' = [nc EXCEPT !.tasks = @ \ {batch}]
    /\ UNCHANGED othersOfNode

NextFail ==
    \/ ec # Idle /\ NextEdge
    \/ ec # Idle /\ \E i \in 1..GraphUnits : EdgeTaskFail(i)
    \/ nc # Idle /\ NextNode
    \/ nc # Idle /\ \E batch \in SUBSET Segments : NodeTaskFail(batch)

SpecFail == InitFail /\ [][NextFail]_vars

\* the edge-centric loop with no task in flight holds no unit in synthesis
\* and can go on: no Relation is pending or one can be picked
EdgeLoopFree ==
    ec.tasks = <<>> =>
        /\ ec.in_synthesis = {}
        /\ ec.pc \in {"loop", "sleeping"} =>
              (ec.relations = {} \/ PickRandomly(ec, ec.in_synthesis) # {})

\* the node-centric loop with no task in flight has every translating unit
\* in the list of the finished ones, and can go on: after the refresh of its
\* next pass there is a leaf to yield or nothing is translating
NodeLoopFree ==
    nc.tasks = {} =>
        /\ nc.translating \subseteq nc.translate_finished
        /\ nc.pc \in {"loop", "sleeping"} =>
              (Refreshed.leaves # {} \/ Refreshed.translating = {})

\* C34: after a task has ended with an exception its units do not stay in
\* flight and the scheduling loop can still end, in both engines: with no
\* task in flight no unit is in flight and the loop has a step other than
\* its sleep.
C34_FailedBatchReleased ==
    /\ ec # Idle => EdgeLoopFree
    /\ nc # Idle => NodeLoopFree


(***************************************************************************)
(* Claims about the attachment of a container (SpecPiece).                 *)
(***************************************************************************)
\* C35: add(item) leaves the container attached as it was: it has the parent
\* it had before the call and, when it has one, is still stored by it.
C35_AddKeepsContainerAttached ==
    last.op = "add" =>
        /\ heap[last.c].parent = last.pre[last.c].parent
        /\ last.pre[last.c].parent # None =>
              last.c \in Range(heap[last.pre[last.c].parent].items)


\* C36: adding an import declaration to the Program root keeps every child of
\* the root that is not an import: a function, struct or impl block that was
\* a child of the root before the call is one after it.
C36_ImportKeepsOtherItems ==
    (last.op = "add" /\ last.c = ProgramRoot /\ last.pre[last.item].kind = "use") =>
        \A p \in Range(last.pre[ProgramRoot].items) :
            last.pre[p].kind # "use" =>
                (p \in Range(heap[ProgramRoot].items) /\ heap[p].parent = ProgramRoot)


(***************************************************************************)
(* Claims about the records of the workspace (SpecPush).                   *)
(***************************************************************************)
\* C37: every Piece recorded in seg_to_pieces for a unit is in the tree of
\* the accumulated program.
C37_RecordedInProgram ==
    \A u \in WsUnits : \A p \in Range(ws.seg_to_pieces[u]) : InProgram(p)


(***************************************************************************)
(* SpecWsTree: the pushes of SpecPush with texts that make every change of *)
(* the tree happen: an impl block that replaces one with other methods     *)
(* (its old-only methods are transplanted), imports that bind the same     *)
(* name (the earlier binding is evicted and its emptied import removed),   *)
(* and Pieces attributed outside the batch (detached, with the cascade).   *)
(***************************************************************************)
WsTreePool == {R_impl_Tab, R_impl_Ta2, R_use_q, R_use_r_q, R_fn_ab}

NextWsTree ==
    \E batch \in {[none |-> TRUE]} \cup {[none |-> FALSE, units |-> S] : S \in SUBSET WsUnits},
       text \in Texts(WsTreePool, MaxTextItems) :
        Push(batch, text)

SpecWsTree == InitPush /\ [][NextWsTree]_vars

\* C38: in the tree of the accumulated program the parent link of every
\* stored child is the container that stores it, and the root has no parent.
C38_ParentLinks ==
    /\ heap[ProgramRoot].parent = None
    /\ \A c \in {ProgramRoot} \cup Descendants(heap, ProgramRoot) :
          \A p \in Range(heap[c].items) : heap[p].parent = c

\* the second push replaced `impl T { a, b }` by `impl T { a' }`: the method b
\* of the old block is a child of the new one
C38_Witness ==
    /\ last.op = "push" /\ ws.pushes = 2
    /\ \E t \in Range(heap[ProgramRoot].items) :
          /\ heap[t].kind = "impl"
          /\ \E a, b \in Range(heap[t].items) :
                /\ heap[a].name = N_a /\ heap[a].body = 2
                /\ heap[b].name = N_b /\ b < t

\* the second push brought an import that binds q: the import of the first
\* push, which bound q too, has left the program
C38_EvictWitness ==
    /\ last.op = "push" /\ ws.pushes = 2
    /\ \E u \in Range(heap[ProgramRoot].items) :
          heap[u].name = UseName(<<"r">>) /\ heap[u].items # <<>>
    /\ \E v \in DOMAIN heap :
          /\ heap[v].name = UseName(<<"p", "::", "q">>)
          /\ v < last.code /\ heap[v].items = <<>> /\ heap[v].parent = None

\* a push detached the only method of an impl block, attributed to a unit
\* outside the batch, and the emptied block was not merged
C38_CascadeWitness ==
    /\ last.op = "push"
    /\ \E t \in DOMAIN heap :
          /\ heap[t].kind = "impl" /\ t > last.code
          /\ heap[t].items = <<>> /\ ~InProgram(t)
    /\ heap[ProgramRoot].items # <<>>


(***************************************************************************)
(* Progress of an edge-centric repair round.  The repair calls return and  *)
(* the event loop runs every task that can take a step: the steps of the   *)
(* tasks and the return of asyncio.wait are weakly fair.                   *)
(***************************************************************************)
\* a step of a task of the round, or the end of the round
RoundStep ==
    \/ RepairTaskStart
    \/ \E i \in DOMAIN rp.tasks : RepairTaskWake(i)
    \/ \E i \in DOMAIN rp.tasks, text \in Texts(RepairPool, 1) : RepairTaskFinish(i, text)
    \/ RepairRoundEnd

SpecRepairFair == InitRepairOf(1) /\ [][NextRepair]_vars /\ WF_vars(RoundStep)

\* the refs held by the tasks that are running
HeldRefs == UNION {rp.tasks[i].pieces : i \in {k \in DOMAIN rp.tasks : rp.tasks[k].state = "running"}}

\* how far a task has come
StateRank(st) ==
    CASE st = "created" -> 0 [] st = "sleeping" -> 1 [] st = "running" -> 2 [] OTHER -> 3

\* C39: in a repair round the refs in resolution are those of the running
\* tasks, a task that waits can enter as soon as no task runs, no task goes
\* back, and every round that has created its tasks ends, with every task
\* done and no ref in resolution.
C39_RoundEnds ==
    /\ [](rp.pc = "waiting" =>
             /\ rp.in_resolution = HeldRefs
             /\ \A i, j \in DOMAIN rp.tasks :
                   (i # j /\ rp.tasks[i].state = "running" /\ rp.tasks[j].state = "running")
                      => rp.tasks[i].pieces \cap rp.tasks[j].pieces = {})
    /\ [][(rp.pc = "waiting" /\ rp'.pc = "waiting") =>
             \A i \in DOMAIN rp.tasks :
                 StateRank(rp'.tasks[i].state) >= StateRank(rp.tasks[i].state)]_vars
    /\ [][(rp.pc = "waiting" /\ rp'.pc # "waiting") =>
             /\ \A i \in DOMAIN rp.tasks : rp.tasks[i].state = "done"
             /\ rp'.in_resolution = {}]_vars
    /\ (rp.pc = "waiting") ~> (rp.pc = "idle" /\ rp.in_resolution = {})

\* a task that slept because another task held one of its refs is running
\* after that task has finished
C39_Witness ==
    /\ rp.pc = "waiting"
    /\ \E i, j \in DOMAIN rp.tasks :
          /\ i # j
          /\ rp.tasks[i].state = "done" /\ rp.tasks[j].state = "running"
          /\ rp.tasks[i].pieces \cap rp.tasks[j].pieces # {}


\* a task sleeps while a task that holds one of its refs is running
C39_WaitWitness ==
    /\ rp.pc = "waiting"
    /\ \E i, j \in DOMAIN rp.tasks :
          /\ rp.tasks[i].state = "running" /\ rp.tasks[j].state = "sleeping"
          /\ rp.tasks[i].pieces \cap rp.tasks[j].pieces # {}


(***************************************************************************)
(* Claims about units with equal declarations (SpecMatch).                 *)
(***************************************************************************)
\* the target Pieces a returned mapping has for unit u
MappedTo(m, u) == UNION {Range(m[i][2]) : i \in {k \in DOMAIN m : m[k][1] = u}}

\* C40: a target Piece that matches a declaration of a unit is in the
\* mapping of that unit, for every unit that holds the declaration.
C40_EveryHolderMatched ==
    mres.tolerant.called =>
        \A u \in Units : \A i \in DOMAIN mres.segments[u] :
            Range(MatchPiece(heap, mres.segments[u][i], Items(heap, mres.code)))
                \subseteq MappedTo(mres.tolerant.match, u)


====
